---- MODULE Spec2Model ----
(***************************************************************************)
(* The server-sent-events hub of golden-vcr/server-common (package sse):   *)
(* the controller goroutine started by NewHandler, the broadcast bus       *)
(* h.b, and one ServeHTTP goroutine per client connection.                 *)
(*                                                                         *)
(* A message (the type parameter T) is a record [x, eventId, enc]: x is    *)
(* its payload (the number of the item in the order the application sent   *)
(* it), eventId is what the ResolveEventId callback returns for it and     *)
(* enc is what encoding it does ("ok": json.Marshal returns bytes, "err":  *)
(* json.Marshal returns an error, "panic": a callback of the encoding      *)
(* panics).                                                                *)
(***************************************************************************)
EXTENDS Naturals, Sequences, FiniteSets, TLC

\* The client connections of the model.
Sessions == {"A", "B"}

\* A queue one item smaller.
QueueCapSmaller == 32 - 1

\* make(chan T, 32): the capacity of a session's queue.
QueueCap == 32

\* How many items the application sends to the source channel.
MaxMsgs == 2

\* How many times the 30 second timer of a session's loop fires, all sessions
\* together.
MaxHeartbeats == 1

\* make(chan coordinate, 32): the capacity of the source channel the
\* application feeds.
SourceCap == 32

\* How many items the application sends while the clients' requests vary.
ConnectMsgs == 1

\* How many items the application sends under fair scheduling.
FairMsgs == 1

\* time.After(30 * time.Second): the seconds after which the timer of a
\* session's loop fires.
Period == 30

\* The longest time, in seconds, that passes in one step where time is modelled.
TickLen == 15

\* How many items the application sends where time is modelled.
TimedMsgs == 1

\* How many items the application sends where their shapes vary.
WireMsgs == 1

\* How many items the application sends where connections break.
BrokenMsgs == 1

\* How many items the application sends where the bus's lock is modelled.
LockMsgs == 1

\* How many items the application sends where it may close the source channel,
\* and how many receives from the closed channel the controller makes.
ClosingMsgs == 1
MaxZeros == 2

\* The messages of the application where the pace of the loop is followed.
PacedMsgs == 2

\* How many deliveries the broker sends to a consumer.
MaxDeliveries == 3

\* How many times the timers fire where time is modelled, all sessions together.
TimedHeartbeats == 2

VARIABLES
    ctxDone,            \* h.ctx is cancelled (what ctx.Done() reports)
    onConnect,          \* h.OnConnect != nil
    resolveEventId,     \* h.ResolveEventId != nil
    source,             \* the items waiting in the channel given to NewHandler
    budget,             \* how many more items the application will send
    sent,               \* how many items the application has sent
    done,               \* the controller goroutine's `done`
    chs,                \* h.b.chs: the sessions whose queue is registered
    queue,              \* queue[s]: the items buffered in session s's channel
    pc,                 \* pc[s]: where session s's ServeHTTP is
    req,                \* req[s]: the request's accept and last-event-id headers
    reqDone,            \* reqDone[s]: req.Context() is cancelled (client gone)
    res,                \* res[s]: the response: code, header, body, what is flushed
    onConnectMessages,  \* onConnectMessages[s]: ServeHTTP's local of that name
    beats,              \* how often the timer of a session's loop has fired
    published,          \* history: the messages passed to publish, in order
    offered,            \* history: offered[s]: the messages publish tried to enqueue for s
    dropped,            \* history: dropped[s]: the messages publish dropped for s
    live,               \* history: live[s]: the messages the loop of s wrote
    window,             \* history: window[s]: Len(published) when the queue of s entered
                        \*          the live set and, after that, when it left it
    removedBy,          \* history: removedBy[s]: what took the queue of s out of the
                        \*          live set ("" while nothing has)
    logged,             \* logged[s]: the messages whose serialization failure the
                        \*          logger of session s was given, in order
    mu,                 \* h.b's lock: the calls of the bus that hold it, a set of
                        \*          [who, arg]: the controller or a session, and the
                        \*          message of a publish
    hm,                 \* the signed request of package hmac: see Unsigned
    run,                \* RunConsumer of package rmq: see RunOf
    consumer,           \* consumer[d]: NewConsumer of package rmq: see ConsumerOf
    mw,                 \* a request in Middleware of package entry: see Exchange
    caughtUp,           \* history: when the catch-up of a session ran: see NoCatchUps
    sourceClosed,       \* the channel given to NewHandler is closed
    clock               \* the time: clock.on: time is modelled; clock.armed: the
                        \*          sessions whose time.After timer is pending;
                        \*          clock.timer[s]: the seconds since it was made;
                        \*          history: clock.quiet[s]: the seconds since the loop
                        \*          of s last wrote to its response

vars == <<ctxDone, onConnect, resolveEventId, source, budget, sent, done, chs, queue,
          pc, req, reqDone, res, onConnectMessages, beats, published, offered,
          dropped, live, window, removedBy, logged, mu, clock, hm, run, consumer, mw,
          caughtUp, sourceClosed>>

------------------------------------------------------------------------------
\* Sequences

\* The index of the first element of q equal to e, 0 if there is none.
RECURSIVE IndexFrom(_, _, _)
IndexFrom(q, e, i) ==
    IF i > Len(q) THEN 0
    ELSE IF q[i] = e THEN i
    ELSE IndexFrom(q, e, i + 1)

IndexOf(q, e) == IndexFrom(q, e, 1)

Range(q) == { q[i] : i \in 1..Len(q) }

IsPrefix(p, q) == Len(p) <= Len(q) /\ SubSeq(q, 1, Len(p)) = p

\* q without the elements that are in the set d.
RECURSIVE Without(_, _)
Without(q, d) ==
    IF q = <<>> THEN <<>>
    ELSE IF Head(q) \in d THEN Without(Tail(q), d)
    ELSE <<Head(q)>> \o Without(Tail(q), d)

Min(a, b) == IF a <= b THEN a ELSE b

------------------------------------------------------------------------------
\* Time

\* The clock of the specifications that leave time out: a timer fires whenever
\* no other case of the select is ready.
NoClock ==
    [on |-> FALSE, armed |-> {}, timer |-> [s \in Sessions |-> 0],
     quiet |-> [s \in Sessions |-> 0],
     keep |-> FALSE, gap |-> [s \in Sessions |-> 0],
     spent |-> [s \in Sessions |-> 0]]

\* The clock when the handler is built, where time is modelled.
NewClock == [NoClock EXCEPT !.on = TRUE]

\* The same clock, which also keeps, for each session, the seconds of silence
\* that came before the last write of its loop and the seconds it spent in
\* its loop.
PacedClock == [NewClock EXCEPT !.keep = TRUE]

\* A ticker made before the loop: it fires every Period seconds from then on,
\* whatever the session wrote meanwhile.
TimeAfterTicker(c, s) ==
    IF ~c.on THEN c
    ELSE [c EXCEPT !.armed = @ \cup {s},
                   !.timer[s] = IF @ >= Period THEN 0 ELSE @]

\* A timer made once, before the loop: an iteration that finds it pending
\* leaves it running, and one that finds it fired has none.
TimeAfterOnce(c, s) ==
    IF ~c.on THEN c
    ELSE IF s \notin c.armed /\ c.timer[s] = 0
         THEN [c EXCEPT !.armed = @ \cup {s}]
    ELSE IF c.timer[s] >= Period THEN [c EXCEPT !.armed = @ \ {s}]
    ELSE c

\* time.After(30 * time.Second), evaluated by session s when it enters the
\* select of its loop: a new timer, pending, nothing of it elapsed.
TimeAfter(c, s) ==
    IF ~c.on THEN c
    ELSE [c EXCEPT !.armed = @ \cup {s}, !.timer[s] = 0]

\* The clock after the loop of session s wrote to its response, or was entered.
Wrote(c, s) ==
    IF ~c.on THEN c
    ELSE [c EXCEPT !.quiet[s] = 0, !.gap[s] = IF c.keep THEN c.quiet[s] ELSE @]

\* <-time.After(...) is ready for session s.
Expired(c, s) == s \in c.armed /\ c.timer[s] >= Period

\* The seconds until the first pending timer of the sessions in `looping`
\* fires, TickLen at most.
Remaining(c, looping) ==
    LET left == { Period - c.timer[s] : s \in { t \in looping \cap c.armed : c.timer[t] <= Period } }
                   \cup {TickLen}
    IN  CHOOSE m \in left : \A r \in left : m <= r

\* The clock d seconds later, for the sessions in `looping`.
Later(c, d, looping) ==
    [c EXCEPT !.timer = [s \in Sessions |->
                            IF s \in looping \cap c.armed THEN c.timer[s] + d ELSE c.timer[s]],
              !.quiet = [s \in Sessions |->
                            IF s \in looping THEN Min(c.quiet[s] + d, Period + TickLen)
                            ELSE c.quiet[s]],
              !.spent = [s \in Sessions |->
                            IF c.keep /\ s \in looping
                            THEN Min(c.spent[s] + d, Period + TickLen)
                            ELSE c.spent[s]]]

------------------------------------------------------------------------------
\* Messages, and the two callbacks of Handler

\* The event ids of the messages ("" is the empty event id); the id of the
\* message with payload x is EventIds[x] when it has one.
EventIds == [x \in 1..(QueueCap + MaxMsgs + 4) |-> "e" \o ToString(x)]

Msg(x, id, enc) == [x |-> x, eventId |-> id, enc |-> enc]

\* The zero value of T: what a receive from a closed, empty channel yields.
ZeroValue == Msg(0, "", "ok")

\* The messages the embedder keeps for catch-up: the ones it published before
\* the handler of the model was built (payloads above every live payload); the
\* one in the middle is a message json.Marshal fails on.
BacklogFirst == QueueCap + MaxMsgs + 2

Backlog ==
    << Msg(BacklogFirst, EventIds[BacklogFirst], "ok"),
       Msg(BacklogFirst + 1, EventIds[BacklogFirst + 1], "err"),
       Msg(BacklogFirst + 2, EventIds[BacklogFirst + 2], "ok") >>

\* h.ResolveEventId as the embedder sets it: the message's own event id.
ResolveEventId(ev) == ev.eventId

\* h.OnConnect as the embedder sets it: the backlog after the message whose
\* event id is lastEventId, all of it when lastEventId is empty, nothing when
\* no message of the backlog has that id.
OnConnect(lastEventId) ==
    IF lastEventId = "" THEN Backlog
    ELSE LET i == IndexOf([j \in 1..Len(Backlog) |-> Backlog[j].eventId], lastEventId)
         IN  IF i = 0 THEN <<>> ELSE SubSeq(Backlog, i + 1, Len(Backlog))

\* json.Marshal of a message: the exported payload only (eventId is not
\* exported, so it is not part of the JSON).
Marshal(message) == "{\"x\":" \o ToString(message.x) \o "}"

HeartbeatLine == ":\n\n"
IdLine(eventId) == "id: " \o eventId \o "\n"
DataLine(data) == "data: " \o data \o "\n\n"

\* A frame whose id line is written whatever the event id is.
FrameAlwaysId(message, resolve) ==
    LET eventId == IF resolve THEN ResolveEventId(message) ELSE ""
    IN  IF message.enc = "err" THEN <<>>
        ELSE <<IdLine(eventId), DataLine(Marshal(message))>>

\* What write() sends for one message: the chunks of its frame.
Frame(message, resolve) ==
    LET eventId == IF resolve THEN ResolveEventId(message) ELSE ""
    IN  IF message.enc = "err" THEN <<>>
        ELSE (IF eventId # "" THEN <<IdLine(eventId)>> ELSE <<>>)
             \o <<DataLine(Marshal(message))>>

\* A write that gives up its batch at the first message json.Marshal fails on.
RECURSIVE WriteAllUntilFailure(_, _)
WriteAllUntilFailure(messages, resolve) ==
    IF messages = <<>> THEN [chunks |-> <<>>, failed |-> <<>>, panicked |-> FALSE]
    ELSE IF Head(messages).enc = "panic"
         THEN [chunks |-> <<>>, failed |-> <<>>, panicked |-> TRUE]
    ELSE IF Head(messages).enc = "err"
         THEN [chunks |-> <<>>, failed |-> <<Head(messages)>>, panicked |-> FALSE]
    ELSE LET rest == WriteAllUntilFailure(Tail(messages), resolve)
         IN  [chunks |-> Frame(Head(messages), resolve) \o rest.chunks,
              failed |-> rest.failed,
              panicked |-> rest.panicked]

\* Handler.write over messages: the chunks written, the messages whose
\* json.Marshal failed (each is logged and skipped), and whether a message made
\* the encoding panic (the rest is then not written, nothing is flushed).
RECURSIVE WriteAll(_, _)
WriteAll(messages, resolve) ==
    IF messages = <<>> THEN [chunks |-> <<>>, failed |-> <<>>, panicked |-> FALSE]
    ELSE IF Head(messages).enc = "panic"
         THEN [chunks |-> <<>>, failed |-> <<>>, panicked |-> TRUE]
    ELSE LET rest == WriteAll(Tail(messages), resolve)
         IN  [chunks |-> Frame(Head(messages), resolve) \o rest.chunks,
              failed |-> (IF Head(messages).enc = "err" THEN <<Head(messages)>> ELSE <<>>)
                         \o rest.failed,
              panicked |-> rest.panicked]

\* res after Handler.write(res, logger, messages...).
write(r, messages, resolve) ==
    LET w == WriteAll(messages, resolve)
        body == r.body \o w.chunks
    IN  [r EXCEPT !.body = body,
                  !.headerSent = r.headerSent \/ ~w.panicked,
                  !.flushed = IF w.panicked THEN r.flushed ELSE Len(body)]

\* res after res.Write([]byte(":\n\n")); res.(http.Flusher).Flush().
Heartbeat(r) ==
    [r EXCEPT !.body = Append(r.body, HeartbeatLine), !.headerSent = TRUE,
              !.flushed = Len(r.body) + 1]

------------------------------------------------------------------------------
\* The broadcast bus h.b (sse/bus.go)

\* bus.register: the live set with the queue of s added.
register(set, s) == set \cup {s}

\* An unregister that puts an absent queue into the set.
unregisterToggle(set, s) == IF s \in set THEN set \ {s} ELSE set \cup {s}

\* bus.unregister: the live set without the queue of s.
unregister(set, s) == set \ {s}

\* bus.clear: the emptied live set.
clear(set) == {}

\* One non-blocking enqueue: the buffer afterwards.
TryEnqueue(buf, message) ==
    IF Len(buf) < QueueCap THEN Append(buf, message) ELSE buf

\* bus.publish: every queue after the message was offered to the registered
\* ones; tried are the queues it attempted, lost those whose buffer was full.
publish(set, queues, message) ==
    [queues |-> [s \in Sessions |->
                    IF s \in set THEN TryEnqueue(queues[s], message) ELSE queues[s]],
     tried  |-> set,
     lost   |-> { s \in set : TryEnqueue(queues[s], message) = queues[s] }]

\* The calls of the bus by `who` that hold the lock.
Held(who) == { h \in mu : h.who = who }

\* A Lock() that does not wait for the lock to be free.
LockNoWait(who, arg) == mu' = mu \cup {[who |-> who, arg |-> arg]}

\* b.mu.Lock() at the start of a call of the bus by `who` (arg: the message of
\* a publish, in a sequence): returns when the lock is free, and takes it.
Lock(who, arg) == mu = {} /\ mu' = {[who |-> who, arg |-> arg]}

\* b.mu.Unlock() at the end of the call.
Unlock(who) == mu' = mu \ Held(who)

------------------------------------------------------------------------------
\* The requests and the responses

\* A header value is the sequence of its parts, so that "begins with" is a
\* comparison of the first part: <<>> is the absent (empty) header.
NoAccept        == <<>>
AcceptAny       == <<"*/*">>
AcceptStream    == <<"text/event-stream">>
AcceptStreamQ   == <<"text/event-stream", ";q=0.9">>
AcceptJson      == <<"application/json">>
AcceptAnyQ      == <<"*/*", ";q=0.8">>
AcceptJsonFirst == <<"application/json", ", text/event-stream">>

\* strings.HasPrefix(value, prefix) for a one-part prefix.
HasPrefix(value, prefix) == Len(value) >= 1 /\ value[1] = prefix

\* An accept check that forgets the wildcard.
RefusedWildcard(accept) ==
    accept # NoAccept /\ ~HasPrefix(accept, "text/event-stream")

\* The condition of the first if of ServeHTTP: the accept header is refused.
Refused(accept) ==
    accept # NoAccept /\ accept # AcceptAny /\ ~HasPrefix(accept, "text/event-stream")

Request(accept, lastEventId) == [accept |-> accept, lastEventId |-> lastEventId]

\* A ResponseWriter nothing was written to; werr says that a write to the
\* connection has failed.
NewResponse ==
    [code |-> 0, header |-> {}, headerSent |-> FALSE, body |-> <<>>, flushed |-> 0,
     werr |-> FALSE]

\* res after a write or flush that the connection failed: nothing more reaches
\* the client, and the error is returned to nobody that looks at it.
WriteError(r) == [r EXCEPT !.werr = TRUE]

StreamHeader ==
    { <<"content-type", "text/event-stream">>,
      <<"cache-control", "no-cache">>,
      <<"connection", "keep-alive">> }

ErrorHeader ==
    { <<"content-type", "text/plain; charset=utf-8">>,
      <<"x-content-type-options", "nosniff">> }

\* The header value as one string.
RECURSIVE Join(_)
Join(value) == IF value = <<>> THEN "" ELSE Head(value) \o Join(Tail(value))

\* res after http.Error(res, message, http.StatusBadRequest) and the return.
BadRequest(r, accept) ==
    [r EXCEPT !.code = 400, !.header = ErrorHeader, !.headerSent = TRUE,
              !.body = <<"content-type " \o Join(accept) \o " is not supported\n">>,
              !.flushed = 1]

\* The same without the Flush().
OpenStreamUnflushed(r) ==
    [r EXCEPT !.code = 200, !.header = StreamHeader]

\* res after the three Header().Set, WriteHeader(http.StatusOK) and Flush().
OpenStream(r) ==
    [r EXCEPT !.code = 200, !.header = StreamHeader, !.headerSent = TRUE]

\* A catch-up that writes the heartbeat in either case.
CatchUpBeatFirst(r, messages, resolve) ==
    IF Len(messages) > 0 THEN write(Heartbeat(r), messages, resolve) ELSE Heartbeat(r)

\* res after the catch-up: the resolved messages if there are any, a heartbeat
\* if there are none.
CatchUpWrite(r, messages, resolve) ==
    IF Len(messages) > 0 THEN write(r, messages, resolve) ELSE Heartbeat(r)

------------------------------------------------------------------------------
\* History: when the catch-up of a session ran

\* on: the history is kept; at[s]: Len(published) when the OnConnect resolver
\* of s, or its first heartbeat, had run.
NoCatchUps == [ on |-> FALSE, at |-> [s \in Sessions |-> 0] ]
NewCatchUps == [ on |-> TRUE, at |-> [s \in Sessions |-> 0] ]

\* The history after the catch-up of s ran with n messages published.
CaughtUpAt(c, s, n) == IF c.on THEN [c EXCEPT !.at[s] = n] ELSE c

------------------------------------------------------------------------------
\* Package hmac: signed requests

HeaderRequestId == "x-hmac-request-id"
HeaderRequestTimestamp == "x-hmac-request-timestamp"
HeaderSignature == "x-hmac-signature"

HmacHeaders == { HeaderRequestId, HeaderRequestTimestamp, HeaderSignature }

\* What Verify returns.
Nil == "nil"
ErrVerificationFailed == "verification failed"

\* The secrets, the bodies and the header values of the requests that are signed
\* and verified. The values overlap so that different request IDs, timestamps
\* and bodies concatenate to the same bytes ("a" "t" "b" and "at" "b" "").
Secrets == { "k1", "k2" }
Bodies == { "", "b" }
RequestIds == { "a", "at" }
Timestamps == { "t", "b", "tb" }

\* What uuid.NewString() and time.Now().Format(time.RFC3339) can return.
Uuids == { "u1", "u2" }
Nows == { "n1" }

\* A header value is the sequence of the parts of its text, <<>> when the
\* header is absent; Header.Get returns the text.
Get(header, name) == Join(header[name])

\* The headers of a request that carries the given request ID and timestamp
\* ("" for none) and no signature.
HmacHeader(requestId, timestamp) ==
    [ n \in HmacHeaders |->
        IF n = HeaderRequestId /\ requestId # "" THEN <<requestId>>
        ELSE IF n = HeaderRequestTimestamp /\ timestamp # "" THEN <<timestamp>>
        ELSE <<>> ]

\* hmac.New(sha256.New, key) fed data, and Sum(nil): a value that is the same
\* for the same key and the same bytes, and differs otherwise.
HmacSha256(key, data) == "hmac(" \o key \o ";" \o data \o ")"

\* hex.EncodeToString
Hex(mac) == "hex(" \o mac \o ")"

SignAlwaysFresh(secret, header, body, uuid, now) ==
    LET signature == <<"sha256=", Hex(HmacSha256(secret, uuid \o now \o body))>>
    IN  [ n \in HmacHeaders |->
            IF n = HeaderRequestId THEN <<uuid>>
            ELSE IF n = HeaderRequestTimestamp THEN <<now>>
            ELSE signature ]

\* signer.Sign: the headers of the request it returns. uuid and now are what
\* uuid.NewString() and time.Now() return should Sign call them. The three
\* Writes to the hash are one Write of the concatenation, and never fail.
Sign(secret, header, body, uuid, now) ==
    LET requestId == IF Get(header, HeaderRequestId) = "" THEN uuid
                     ELSE Get(header, HeaderRequestId)
        h1 == IF Get(header, HeaderRequestId) = ""
              THEN [header EXCEPT ![HeaderRequestId] = <<requestId>>]
              ELSE header
        timestamp == IF Get(h1, HeaderRequestTimestamp) = "" THEN now
                     ELSE Get(h1, HeaderRequestTimestamp)
        h2 == IF Get(h1, HeaderRequestTimestamp) = ""
              THEN [h1 EXCEPT ![HeaderRequestTimestamp] = <<timestamp>>]
              ELSE h1
        signature == <<"sha256=", Hex(HmacSha256(secret, requestId \o timestamp \o body))>>
    IN  [h2 EXCEPT ![HeaderSignature] = signature]

VerifyTimestampFirst(secret, header, body) ==
    LET requestId == Get(header, HeaderRequestId)
        timestamp == Get(header, HeaderRequestTimestamp)
        signatureHeader == header[HeaderSignature]
    IN  IF requestId = "" THEN ErrVerificationFailed
        ELSE IF timestamp = "" THEN ErrVerificationFailed
        ELSE IF Join(signatureHeader) = "" \/ ~HasPrefix(signatureHeader, "sha256=")
             THEN ErrVerificationFailed
        ELSE LET expectedHash == Join(Tail(signatureHeader))
                 computedHash == Hex(HmacSha256(secret, timestamp \o requestId \o body))
             IN  IF expectedHash # computedHash THEN ErrVerificationFailed ELSE Nil

\* verifier.Verify: the error it returns.
Verify(secret, header, body) ==
    LET requestId == Get(header, HeaderRequestId)
        timestamp == Get(header, HeaderRequestTimestamp)
        signatureHeader == header[HeaderSignature]
    IN  IF requestId = "" THEN ErrVerificationFailed
        ELSE IF timestamp = "" THEN ErrVerificationFailed
        ELSE IF Join(signatureHeader) = "" \/ ~HasPrefix(signatureHeader, "sha256=")
             THEN ErrVerificationFailed
        ELSE LET expectedHash == Join(Tail(signatureHeader))
                 computedHash == Hex(HmacSha256(secret, requestId \o timestamp \o body))
             IN  IF expectedHash # computedHash THEN ErrVerificationFailed ELSE Nil

\* A request and what was done with it: its headers and body; signed: Sign was
\* applied, with the signer's secret, and original are the headers the request
\* had when Sign returned it (before that, those it arrived with), again: Sign
\* was applied to the signed request once more; verified: Verify was applied, by a
\* verifier with the secret `verifier`, given the body `given`, returning err.
Unsigned(secret, header, body) ==
    [ header |-> header, body |-> body, secret |-> secret, signed |-> FALSE,
      original |-> header, again |-> FALSE, verified |-> FALSE, verifier |-> "",
      given |-> "", err |-> Nil ]

\* No request of package hmac is under way.
NoRequest == Unsigned("", HmacHeader("", ""), "")

------------------------------------------------------------------------------
\* Package rmq: RunConsumer

\* What RunConsumer returned, "" while it runs.
Running == ""
ReturnedNil == "nil"
UnmarshalError == "unmarshal error"
HandlerError == "handler error"
AckError == "ack error"

\* The bodies of deliveries: one json.Unmarshal accepts, one it rejects.
DeliveryBodies == { "ok", "bad" }

\* The n-th delivery the broker sends to the consumer.
Delivery(n, body) == [ tag |-> n, body |-> body ]

NoDelivery == Delivery(0, "ok")

\* json.Unmarshal(d.Body, &ev): whether it returns an error.
UnmarshalFails(d) == d.body # "ok"

\* RunConsumer(c, f) and what it did: at: where it is; deliveries: what
\* c.deliveries holds, closed: c.deliveries is closed, arrived: how many
\* deliveries the broker has sent; d: the delivery of the current iteration;
\* ret: what RunConsumer returned. History: handled: the tags of the deliveries
\* f was called with, succeeded: of those f returned nil for, acked: of those
\* d.Ack was called on, in order.
RunOf(at, closed) ==
    [ at |-> at, deliveries |-> <<>>, closed |-> closed, arrived |-> 0,
      d |-> NoDelivery, ret |-> Running,
      handled |-> <<>>, succeeded |-> <<>>, acked |-> <<>> ]

\* No consumer runs.
NoRun == RunOf("none", TRUE)

------------------------------------------------------------------------------
\* Package rmq: NewConsumer

QueueTypeFanout == "fanout"
QueueTypeWork == "work"

\* The queue declarations of the application, and the types they may have: the
\* two the package knows and one it does not.
Declarations == { "d1", "d2" }
QueueTypes == { QueueTypeFanout, QueueTypeWork, "other" }

\* d.NewConsumer(ctx, logger, conn) and what became of it: type: d.Type; at:
\* where the call is, "ready" once it returned a Consumer, "failed" once it
\* returned an error, "closed" after Close on the Consumer; ch: the AMQP
\* channel: "none" before conn.Channel() returned one, then "open", then
\* "closed"; consumer, err: what NewConsumer returned. History: closes: how
\* often Close was called on the channel.
ConsumerOf(type, at) ==
    [ type |-> type, at |-> at, ch |-> "none", consumer |-> FALSE, err |-> FALSE,
      closes |-> 0 ]

\* ch.Close()
ChannelClose(c) == [c EXCEPT !.ch = "closed", !.closes = @ + 1]

\* workReceiver.Close
WorkReceiverClose(c) == ChannelClose(c)

\* The Close of the receiver newFanoutReceiver returns: it closes the channel,
\* as the Close of every consumer and receiver of the package does.
FanoutReceiverClose(c) == ChannelClose(c)

\* receiver.Close()
ReceiverClose(c) ==
    IF c.type = QueueTypeFanout THEN FanoutReceiverClose(c) ELSE WorkReceiverClose(c)

\* NewConsumer is called for no declaration.
NoConsumer == [ d \in Declarations |-> ConsumerOf(QueueTypeWork, "none") ]

------------------------------------------------------------------------------
\* Package entry: Middleware and ConveyRequestId

\* How many outgoing requests a handler makes.
MaxOutgoing == 2

\* The x-request-id values incoming requests carry ("" for none), those
\* uuid.NewString() returns in Middleware, and those outgoing requests carry
\* of their own.
IncomingIds == { "", "r1", "r2" }
FreshIds == { "f1", "f2" }
OutgoingIds == { "", "o1" }

\* ctx.Value("x-request-id").(string): the string, and whether the value is
\* there and is a string.
NoValue == [ ok |-> FALSE, value |-> "" ]
WithValue(requestId) == [ ok |-> TRUE, value |-> requestId ]

ConveyRequestIdAlways(ctx, header) ==
    IF ctx.ok /\ ctx.value # "" THEN ctx.value ELSE header

\* ConveyRequestId(ctx, req): the x-request-id header of the request it
\* returns, header being the one req has ("" for none).
ConveyRequestId(ctx, header) ==
    IF header = ""
    THEN IF ctx.ok /\ ctx.value # "" THEN ctx.value ELSE header
    ELSE header

\* A request through Middleware: at: where the middleware is; header: the
\* x-request-id of the incoming request; requestId: the local of that name;
\* ctx: what the context of the request given to the handler holds under
\* "x-request-id"; response: the x-request-id response header; outgoing: the
\* outgoing requests the handler passed to ConveyRequestId: own: the header it
\* had, ctx: the context passed, header: the header of the request returned.
Exchange(at, header) ==
    [ at |-> at, header |-> header, requestId |-> "", ctx |-> NoValue,
      response |-> "", outgoing |-> <<>> ]

\* No request is in the middleware.
NoExchange == Exchange("none", "")

------------------------------------------------------------------------------
\* The initial states

\* NewHandler has returned: the controller runs, no request has arrived, and
\* the application will send n items; resolvers says whether the embedder set
\* ResolveEventId.
Constructed(n, resolvers) ==
    /\ ctxDone = FALSE
    /\ onConnect \in BOOLEAN
    /\ resolveEventId \in resolvers
    /\ source = <<>>
    /\ budget = n
    /\ sent = 0
    /\ done = FALSE
    /\ chs = {}
    /\ published = <<>>
    /\ pc = [s \in Sessions |-> "idle"]
    /\ req = [s \in Sessions |-> Request(NoAccept, "")]
    /\ reqDone = [s \in Sessions |-> FALSE]
    /\ res = [s \in Sessions |-> NewResponse]
    /\ onConnectMessages = [s \in Sessions |-> <<>>]
    /\ beats = 0
    /\ queue = [s \in Sessions |-> <<>>]
    /\ offered = [s \in Sessions |-> <<>>]
    /\ dropped = [s \in Sessions |-> {}]
    /\ live = [s \in Sessions |-> <<>>]
    /\ window = [s \in Sessions |-> <<>>]
    /\ removedBy = [s \in Sessions |-> ""]
    /\ logged = [s \in Sessions |-> <<>>]
    /\ mu = {}

\* The same, time left out.
Fresh(n, resolvers) ==
    /\ Constructed(n, resolvers)
    /\ clock = NoClock
    /\ hm = NoRequest
    /\ sourceClosed = FALSE
    /\ caughtUp = NoCatchUps
    /\ mw = NoExchange
    /\ consumer = NoConsumer
    /\ run = NoRun

\* The same, time modelled.
FreshTimed ==
    /\ Constructed(TimedMsgs, {TRUE})
    /\ clock = NewClock
    /\ hm = NoRequest
    /\ sourceClosed = FALSE
    /\ caughtUp = NoCatchUps
    /\ mw = NoExchange
    /\ consumer = NoConsumer
    /\ run = NoRun

Init == Fresh(MaxMsgs, {TRUE})

\* The items a slow client has pending: the first QueueCap - 1 items sent.
Pending == [x \in 1..(QueueCap - 1) |-> Msg(x, "", "ok")]

\* A handler whose client A connected (no accept header, no last-event-id, no
\* OnConnect), registered and has not been scheduled since, while the
\* application sent and the controller published QueueCap - 1 items: one more
\* item fills the queue of A.
InitBusy ==
    /\ ctxDone = FALSE
    /\ onConnect = FALSE
    /\ resolveEventId = TRUE
    /\ source = <<>>
    /\ budget = MaxMsgs
    /\ sent = QueueCap - 1
    /\ done = FALSE
    /\ chs = register({}, "A")
    /\ published = Pending
    /\ pc = [s \in Sessions |-> IF s = "A" THEN "loop" ELSE "idle"]
    /\ req = [s \in Sessions |-> Request(NoAccept, "")]
    /\ reqDone = [s \in Sessions |-> FALSE]
    /\ res = [s \in Sessions |->
                IF s = "A" THEN CatchUpWrite(OpenStream(NewResponse), <<>>, resolveEventId)
                ELSE NewResponse]
    /\ onConnectMessages = [s \in Sessions |-> <<>>]
    /\ beats = 0
    /\ queue = [s \in Sessions |-> IF s = "A" THEN Pending ELSE <<>>]
    /\ offered = [s \in Sessions |-> IF s = "A" THEN Pending ELSE <<>>]
    /\ dropped = [s \in Sessions |-> {}]
    /\ live = [s \in Sessions |-> <<>>]
    /\ window = [s \in Sessions |-> IF s = "A" THEN <<0>> ELSE <<>>]
    /\ removedBy = [s \in Sessions |-> ""]
    /\ logged = [s \in Sessions |-> <<>>]
    /\ mu = {}
    /\ clock = NoClock
    /\ hm = NoRequest
    /\ sourceClosed = FALSE
    /\ caughtUp = NoCatchUps
    /\ mw = NoExchange
    /\ consumer = NoConsumer
    /\ run = NoRun

------------------------------------------------------------------------------
\* The embedding application, the clients and the shutdown signal

\* The shapes of item the application sends: <<has an event id, what encoding
\* it does>>.
IdShapes  == { <<TRUE, "ok">> }
AllShapes == { <<TRUE, "ok">>, <<FALSE, "panic">> }
WireShapes == { <<TRUE, "ok">>, <<FALSE, "ok">>, <<TRUE, "err">> }

\* The requests clients make: <<accept, last-event-id>>.
PlainRequests == { Request(NoAccept, ""), Request(AcceptJson, "") }

Requests ==
    { Request(NoAccept, ""),
      Request(AcceptAny, EventIds[BacklogFirst]),
      Request(AcceptStream, "unknown"),
      Request(AcceptStreamQ, EventIds[BacklogFirst + 1]),
      Request(AcceptJson, ""),
      Request(AcceptAnyQ, ""),
      Request(AcceptJsonFirst, EventIds[BacklogFirst]) }

\* The application sends its next item to the source channel.
AppSend(shapes) ==
    /\ budget > 0
    /\ Len(source) < SourceCap
    /\ \E shape \in shapes :
          source' = Append(source,
                           Msg(sent + 1, IF shape[1] THEN EventIds[sent + 1] ELSE "", shape[2]))
    /\ sent' = sent + 1
    /\ budget' = budget - 1
    /\ UNCHANGED <<hm, sourceClosed, caughtUp, mw, consumer, run,
                   ctxDone, onConnect, resolveEventId, done, chs, queue, pc, req, reqDone,
                   res, onConnectMessages, beats, published, offered, dropped, live,
                   window, removedBy, clock, logged, mu>>

\* An application that sends only once the context is cancelled.
AppSendLate ==
    /\ ctxDone
    /\ AppSend(IdShapes)

\* The context given to NewHandler is cancelled.
Cancel ==
    /\ ~ctxDone
    /\ ctxDone' = TRUE
    /\ UNCHANGED <<hm, sourceClosed, caughtUp, mw, consumer, run,
                   onConnect, resolveEventId, source, budget, sent, done, chs, queue, pc,
                   req, reqDone, res, onConnectMessages, beats, published, offered,
                   dropped, live, window, removedBy, clock, logged, mu>>

\* The client of s goes away: the request's context is cancelled.
ClientDisconnect(s) ==
    /\ pc[s] \in {"catchup", "register", "loop"}
    /\ ~reqDone[s]
    /\ reqDone' = [reqDone EXCEPT ![s] = TRUE]
    /\ UNCHANGED <<hm, sourceClosed, caughtUp, mw, consumer, run,
                   ctxDone, onConnect, resolveEventId, source, budget, sent, done, chs,
                   queue, pc, req, res, onConnectMessages, beats, published, offered,
                   dropped, live, window, removedBy, clock, logged, mu>>

------------------------------------------------------------------------------
\* The controller goroutine of NewHandler

\* The histories after the live set went from `before` to `after` by `cause`.
Closed(before, after, cause) ==
    /\ window' = [s \in Sessions |->
                    IF s \in before /\ s \notin after
                    THEN Append(window[s], Len(published)) ELSE window[s]]
    /\ removedBy' = [s \in Sessions |->
                    IF s \in before /\ s \notin after THEN cause ELSE removedBy[s]]

\* A controller that publishes the item and leaves it in the source.
ControllerPublishAgain ==
    /\ ~done
    /\ source # <<>>
    /\ LET message == Head(source)
           p == publish(chs, queue, message)
       IN  /\ queue' = p.queues
           /\ offered' = [s \in Sessions |->
                            IF s \in p.tried THEN Append(offered[s], message) ELSE offered[s]]
           /\ dropped' = [s \in Sessions |->
                            IF s \in p.lost THEN dropped[s] \cup {message} ELSE dropped[s]]
           /\ published' = Append(published, message)
    /\ UNCHANGED <<hm, sourceClosed, caughtUp, mw, consumer, run,
                   ctxDone, onConnect, resolveEventId, source, budget, sent, done, chs, pc,
                   req, reqDone, res, onConnectMessages, beats, live, window, removedBy,
                   clock, logged, mu>>

\* A controller whose loop goes on receiving after done is set.
ControllerPublishAfterDone ==
    /\ source # <<>>
    /\ LET message == Head(source)
           p == publish(chs, queue, message)
       IN  /\ queue' = p.queues
           /\ offered' = [s \in Sessions |->
                            IF s \in p.tried THEN Append(offered[s], message) ELSE offered[s]]
           /\ dropped' = [s \in Sessions |->
                            IF s \in p.lost THEN dropped[s] \cup {message} ELSE dropped[s]]
           /\ published' = Append(published, message)
    /\ source' = Tail(source)
    /\ UNCHANGED <<hm, sourceClosed, caughtUp, mw, consumer, run,
                   ctxDone, onConnect, resolveEventId, budget, sent, done, chs, pc, req,
                   reqDone, res, onConnectMessages, beats, live, window, removedBy, clock,
                   logged, mu>>

\* case message := <-ch: h.b.publish(message)
ControllerPublish ==
    /\ ~done
    /\ source # <<>>
    /\ LET message == Head(source)
           p == publish(chs, queue, message)
       IN  /\ queue' = p.queues
           /\ offered' = [s \in Sessions |->
                            IF s \in p.tried THEN Append(offered[s], message) ELSE offered[s]]
           /\ dropped' = [s \in Sessions |->
                            IF s \in p.lost THEN dropped[s] \cup {message} ELSE dropped[s]]
           /\ published' = Append(published, message)
    /\ source' = Tail(source)
    /\ UNCHANGED <<hm, sourceClosed, caughtUp, mw, consumer, run,
                   ctxDone, onConnect, resolveEventId, budget, sent, done, chs, pc, req,
                   reqDone, res, onConnectMessages, beats, live, window, removedBy, clock,
                   logged, mu>>

\* A controller that looks at ctx.Done() only when the source has no item.
ControllerClearWhenDrained ==
    /\ ~done
    /\ ctxDone
    /\ source = <<>>
    /\ done' = TRUE
    /\ chs' = clear(chs)
    /\ Closed(chs, clear(chs), "clear")
    /\ UNCHANGED <<hm, sourceClosed, caughtUp, mw, consumer, run,
                   ctxDone, onConnect, resolveEventId, source, budget, sent, queue, pc,
                   req, reqDone, res, onConnectMessages, beats, published, offered,
                   dropped, live, clock, logged, mu>>

\* case <-ctx.Done(): done = true; h.b.clear()
ControllerClear ==
    /\ ~done
    /\ ctxDone
    /\ done' = TRUE
    /\ chs' = clear(chs)
    /\ Closed(chs, clear(chs), "clear")
    /\ UNCHANGED <<hm, sourceClosed, caughtUp, mw, consumer, run,
                   ctxDone, onConnect, resolveEventId, source, budget, sent, queue, pc,
                   req, reqDone, res, onConnectMessages, beats, published, offered,
                   dropped, live, clock, logged, mu>>

------------------------------------------------------------------------------
\* One connection: Handler.ServeHTTP

\* The accept check, then either http.Error and return, or the response
\* header, WriteHeader(200) and Flush.
Handshake(s, requests) ==
    /\ pc[s] = "idle"
    /\ \E r \in requests :
          /\ req' = [req EXCEPT ![s] = r]
          /\ IF Refused(r.accept)
             THEN /\ res' = [res EXCEPT ![s] = BadRequest(res[s], r.accept)]
                  /\ pc' = [pc EXCEPT ![s] = "closed"]
             ELSE /\ res' = [res EXCEPT ![s] = OpenStream(res[s])]
                  /\ pc' = [pc EXCEPT ![s] = "catchup"]
    /\ UNCHANGED <<hm, sourceClosed, caughtUp, mw, consumer, run,
                   ctxDone, onConnect, resolveEventId, source, budget, sent, done, chs,
                   queue, reqDone, onConnectMessages, beats, published, offered, dropped,
                   live, window, removedBy, clock, logged, mu>>

\* onConnectMessages is resolved and written, or the first heartbeat is.
CatchUp(s) ==
    /\ pc[s] = "catchup"
    /\ LET messages == IF onConnect THEN OnConnect(req[s].lastEventId) ELSE <<>>
       IN  /\ onConnectMessages' = [onConnectMessages EXCEPT ![s] = messages]
           /\ res' = [res EXCEPT ![s] = CatchUpWrite(res[s], messages, resolveEventId)]
           /\ logged' = [logged EXCEPT ![s] = @ \o WriteAll(messages, resolveEventId).failed]
    /\ caughtUp' = CaughtUpAt(caughtUp, s, Len(published))
    /\ pc' = [pc EXCEPT ![s] = "register"]
    /\ UNCHANGED <<hm, sourceClosed, mw, consumer, run,
                   ctxDone, onConnect, resolveEventId, source, budget, sent, done, chs,
                   queue, req, reqDone, beats, published, offered, dropped, live, window,
                   removedBy, clock, mu>>

\* A queue handed to a late subscriber with everything published so far in it.
ReplayChannel == published

\* make(chan T, 32): the buffer of a channel nothing was sent to.
NewChannel == <<>>

\* A registration that hands over what was published since the catch-up.
RegisterCaughtUp(s) ==
    /\ pc[s] = "register"
    /\ queue' = [queue EXCEPT ![s] =
                    SubSeq(published, caughtUp.at[s] + 1, Len(published))]
    /\ chs' = register(chs, s)
    /\ window' = [window EXCEPT ![s] = <<Len(published)>>]
    /\ pc' = [pc EXCEPT ![s] = "loop"]
    /\ clock' = TimeAfter(Wrote(clock, s), s)
    /\ UNCHANGED <<hm, sourceClosed, caughtUp, mw, consumer, run,
                   ctxDone, onConnect, resolveEventId, source, budget, sent, done, req,
                   reqDone, res, onConnectMessages, beats, published, offered, dropped,
                   live, removedBy, logged, mu>>

\* ch := make(chan T, 32); h.b.register(ch)
Register(s) ==
    /\ pc[s] = "register"
    /\ queue' = [queue EXCEPT ![s] = NewChannel]
    /\ chs' = register(chs, s)
    /\ window' = [window EXCEPT ![s] = <<Len(published)>>]
    /\ pc' = [pc EXCEPT ![s] = "loop"]
    /\ clock' = TimeAfter(Wrote(clock, s), s)
    /\ UNCHANGED <<hm, sourceClosed, caughtUp, mw, consumer, run,
                   ctxDone, onConnect, resolveEventId, source, budget, sent, done, req,
                   reqDone, res, onConnectMessages, beats, published, offered, dropped,
                   live, removedBy, logged, mu>>

\* case <-time.After(30 * time.Second): the timer of this iteration has fired;
\* where time is left out, no other case was ready for 30 seconds.
LoopTimer(s) ==
    /\ pc[s] = "loop"
    /\ IF clock.on THEN Expired(clock, s)
                   ELSE queue[s] = <<>> /\ ~ctxDone /\ ~reqDone[s]
    /\ beats < (IF clock.on THEN TimedHeartbeats ELSE MaxHeartbeats)
    /\ beats' = beats + 1
    /\ res' = [res EXCEPT ![s] = Heartbeat(res[s])]
    /\ clock' = TimeAfter(Wrote(clock, s), s)
    /\ UNCHANGED <<hm, sourceClosed, caughtUp, mw, consumer, run,
                   ctxDone, onConnect, resolveEventId, source, budget, sent, done, chs,
                   queue, pc, req, reqDone, onConnectMessages, published, offered, dropped,
                   live, window, removedBy, logged, mu>>

\* Time passes while every session that is in its loop waits in its select
\* with no case ready: up to TickLen seconds, and not beyond the moment the
\* first pending timer fires.
Tick ==
    /\ clock.on
    /\ LET looping == { s \in Sessions : pc[s] = "loop" }
       IN  /\ looping # {}
           /\ \A s \in looping : queue[s] = <<>> /\ ~ctxDone /\ ~reqDone[s]
           /\ Remaining(clock, looping) > 0
           /\ clock' = Later(clock, Remaining(clock, looping), looping)
    /\ UNCHANGED <<hm, sourceClosed, caughtUp, mw, consumer, run,
                   ctxDone, onConnect, resolveEventId, source, budget, sent, done, chs,
                   queue, pc, req, reqDone, res, onConnectMessages, beats, published,
                   offered, dropped, live, window, removedBy, logged, mu>>

\* The heartbeat of the loop on a connection that fails the write: net/http
\* cancels the request's context when a write to the connection fails.
LoopTimerFails(s) ==
    /\ pc[s] = "loop"
    /\ queue[s] = <<>> /\ ~ctxDone /\ ~reqDone[s]
    /\ beats < MaxHeartbeats
    /\ beats' = beats + 1
    /\ res' = [res EXCEPT ![s] = WriteError(res[s])]
    /\ reqDone' = [reqDone EXCEPT ![s] = TRUE]
    /\ clock' = TimeAfter(clock, s)
    /\ UNCHANGED <<hm, sourceClosed, caughtUp, mw, consumer, run,
                   ctxDone, onConnect, resolveEventId, source, budget, sent, done, chs,
                   queue, pc, req, onConnectMessages, published, offered, dropped,
                   live, window, removedBy, logged, mu>>

\* A receive that takes the newest item of the buffer.
ReceiveNewest(buf) == [message |-> buf[Len(buf)], rest |-> SubSeq(buf, 1, Len(buf) - 1)]

\* A receive that leaves the item in the buffer.
ReceivePeek(buf) == [message |-> Head(buf), rest |-> buf]

\* message := <-ch: the message received and what stays in the buffer.
Receive(buf) == [message |-> Head(buf), rest |-> Tail(buf)]

\* case message := <-ch: h.write(res, logger, message); a panic of the
\* encoding unwinds ServeHTTP.
LoopMessage(s) ==
    /\ pc[s] = "loop"
    /\ queue[s] # <<>>
    /\ LET r == Receive(queue[s])
           w == WriteAll(<<r.message>>, resolveEventId)
       IN  /\ queue' = [queue EXCEPT ![s] = r.rest]
           /\ live' = [live EXCEPT ![s] = Append(@, r.message)]
           /\ res' = [res EXCEPT ![s] = write(res[s], <<r.message>>, resolveEventId)]
           /\ logged' = [logged EXCEPT ![s] = @ \o w.failed]
           /\ pc' = [pc EXCEPT ![s] = IF w.panicked THEN "panicked" ELSE "loop"]
           /\ clock' = TimeAfter(IF w.chunks # <<>> THEN Wrote(clock, s) ELSE clock, s)
    /\ UNCHANGED <<hm, sourceClosed, caughtUp, mw, consumer, run,
                   ctxDone, onConnect, resolveEventId, source, budget, sent, done, chs,
                   req, reqDone, onConnectMessages, beats, published, offered, dropped,
                   window, removedBy, mu>>

\* The write of a message from the queue on a connection that fails it.
LoopMessageFails(s) ==
    /\ pc[s] = "loop"
    /\ queue[s] # <<>>
    /\ LET r == Receive(queue[s])
           w == WriteAll(<<r.message>>, resolveEventId)
       IN  /\ ~w.panicked /\ w.chunks # <<>>
           /\ queue' = [queue EXCEPT ![s] = r.rest]
           /\ live' = [live EXCEPT ![s] = Append(@, r.message)]
           /\ logged' = [logged EXCEPT ![s] = @ \o w.failed]
    /\ res' = [res EXCEPT ![s] = WriteError(res[s])]
    /\ reqDone' = [reqDone EXCEPT ![s] = TRUE]
    /\ clock' = TimeAfter(clock, s)
    /\ UNCHANGED <<hm, sourceClosed, caughtUp, mw, consumer, run,
                   ctxDone, onConnect, resolveEventId, source, budget, sent, done, chs,
                   pc, req, onConnectMessages, beats, published, offered, dropped,
                   window, removedBy, mu>>

\* A teardown that writes what is pending in the queue before it returns.
LeaveDraining(s) ==
    /\ chs' = unregister(chs, s)
    /\ Closed(chs, unregister(chs, s), "unregister")
    /\ pc' = [pc EXCEPT ![s] = "closed"]
    /\ res' = [res EXCEPT ![s] = write(res[s], queue[s], resolveEventId)]
    /\ live' = [live EXCEPT ![s] = @ \o queue[s]]
    /\ queue' = [queue EXCEPT ![s] = <<>>]
    /\ UNCHANGED <<hm, sourceClosed, caughtUp, mw, consumer, run, ctxDone, onConnect,
                   resolveEventId, source, budget, sent, done, req, reqDone,
                   onConnectMessages, beats, published, offered, dropped, clock, logged, mu>>

\* A return of the loop that forgets to unregister.
LeaveRegistered(s) ==
    /\ pc' = [pc EXCEPT ![s] = "closed"]
    /\ UNCHANGED <<hm, sourceClosed, caughtUp, mw, consumer, run,
                   ctxDone, onConnect, resolveEventId, source, budget, sent, done, chs,
                   queue, req, reqDone, res, onConnectMessages, beats, published, offered,
                   dropped, live, window, removedBy, clock, logged, mu>>

\* The two returns of the loop: h.b.unregister(ch); return.
Leave(s) ==
    /\ chs' = unregister(chs, s)
    /\ Closed(chs, unregister(chs, s), "unregister")
    /\ pc' = [pc EXCEPT ![s] = "closed"]
    /\ UNCHANGED <<hm, sourceClosed, caughtUp, mw, consumer, run,
                   ctxDone, onConnect, resolveEventId, source, budget, sent, done, queue,
                   req, reqDone, res, onConnectMessages, beats, published, offered,
                   dropped, live, clock, logged, mu>>

\* A shutdown case that returns and leaves the unregistering to clear().
LoopShutdownNoUnregister(s) ==
    /\ pc[s] = "loop"
    /\ ctxDone
    /\ LeaveRegistered(s)

\* A shutdown case that unregisters only while clear() has not run.
LoopShutdownUnlessCleared(s) ==
    /\ pc[s] = "loop"
    /\ ctxDone
    /\ IF done THEN LeaveRegistered(s) ELSE Leave(s)

\* case <-h.ctx.Done()
LoopShutdown(s) ==
    /\ pc[s] = "loop"
    /\ ctxDone
    /\ Leave(s)

\* A disconnect case that returns without unregistering.
LoopDisconnectNoUnregister(s) ==
    /\ pc[s] = "loop"
    /\ reqDone[s]
    /\ LeaveRegistered(s)

\* case <-req.Context().Done()
LoopDisconnect(s) ==
    /\ pc[s] = "loop"
    /\ reqDone[s]
    /\ Leave(s)

------------------------------------------------------------------------------
\* The calls of the bus, the lock modelled: each call is a step that takes the
\* lock and a step that changes the live set or the queues and gives the lock
\* back.

\* case message := <-ch, and publish(message) up to where it has the lock.
ControllerReceive ==
    /\ ~done
    /\ source # <<>>
    /\ Held("controller") = {}
    /\ Lock("controller", <<Head(source)>>)
    /\ source' = Tail(source)
    /\ UNCHANGED <<hm, sourceClosed, caughtUp, mw, consumer, run,
                   ctxDone, onConnect, resolveEventId, budget, sent, done, chs, queue, pc,
                   req, reqDone, res, onConnectMessages, beats, published, offered,
                   dropped, live, window, removedBy, clock, logged>>

\* The rest of publish(message).
ControllerPublishUnlock ==
    /\ \E h \in Held("controller") :
          /\ h.arg # <<>>
          /\ LET message == h.arg[1]
                 p == publish(chs, queue, message)
             IN  /\ queue' = p.queues
                 /\ offered' = [s \in Sessions |->
                        IF s \in p.tried THEN Append(offered[s], message) ELSE offered[s]]
                 /\ dropped' = [s \in Sessions |->
                        IF s \in p.lost THEN dropped[s] \cup {message} ELSE dropped[s]]
                 /\ published' = Append(published, message)
    /\ Unlock("controller")
    /\ UNCHANGED <<hm, sourceClosed, caughtUp, mw, consumer, run,
                   ctxDone, onConnect, resolveEventId, source, budget, sent, done, chs, pc,
                   req, reqDone, res, onConnectMessages, beats, live, window, removedBy,
                   clock, logged>>

\* case <-ctx.Done(): done = true, and clear() up to where it has the lock.
ControllerClearLock ==
    /\ ~done
    /\ ctxDone
    /\ Held("controller") = {}
    /\ done' = TRUE
    /\ Lock("controller", <<>>)
    /\ UNCHANGED <<hm, sourceClosed, caughtUp, mw, consumer, run,
                   ctxDone, onConnect, resolveEventId, source, budget, sent, chs, queue,
                   pc, req, reqDone, res, onConnectMessages, beats, published, offered,
                   dropped, live, window, removedBy, clock, logged>>

\* The rest of clear().
ControllerClearUnlock ==
    /\ \E h \in Held("controller") : h.arg = <<>>
    /\ chs' = clear(chs)
    /\ Closed(chs, clear(chs), "clear")
    /\ Unlock("controller")
    /\ UNCHANGED <<hm, sourceClosed, caughtUp, mw, consumer, run,
                   ctxDone, onConnect, resolveEventId, source, budget, sent, done, queue,
                   pc, req, reqDone, res, onConnectMessages, beats, published, offered,
                   dropped, live, clock, logged>>

\* ch := make(chan T, 32), and register(ch) up to where it has the lock.
RegisterLock(s) ==
    /\ pc[s] = "register"
    /\ Held(s) = {}
    /\ queue' = [queue EXCEPT ![s] = NewChannel]
    /\ Lock(s, <<>>)
    /\ UNCHANGED <<hm, sourceClosed, caughtUp, mw, consumer, run,
                   ctxDone, onConnect, resolveEventId, source, budget, sent, done, chs, pc,
                   req, reqDone, res, onConnectMessages, beats, published, offered,
                   dropped, live, window, removedBy, clock, logged>>

\* The rest of register(ch), and on to the select of the loop.
RegisterUnlock(s) ==
    /\ pc[s] = "register"
    /\ Held(s) # {}
    /\ chs' = register(chs, s)
    /\ window' = [window EXCEPT ![s] = <<Len(published)>>]
    /\ pc' = [pc EXCEPT ![s] = "loop"]
    /\ clock' = TimeAfter(Wrote(clock, s), s)
    /\ Unlock(s)
    /\ UNCHANGED <<hm, sourceClosed, caughtUp, mw, consumer, run,
                   ctxDone, onConnect, resolveEventId, source, budget, sent, done, queue,
                   req, reqDone, res, onConnectMessages, beats, published, offered,
                   dropped, live, removedBy, logged>>

\* One of the two returning cases, and unregister(ch) up to where it has the
\* lock.
LeaveLock(s) ==
    /\ pc[s] = "loop"
    /\ ctxDone \/ reqDone[s]
    /\ pc' = [pc EXCEPT ![s] = "unregister"]
    /\ Lock(s, <<>>)
    /\ UNCHANGED <<hm, sourceClosed, caughtUp, mw, consumer, run,
                   ctxDone, onConnect, resolveEventId, source, budget, sent, done, chs,
                   queue, req, reqDone, res, onConnectMessages, beats, published, offered,
                   dropped, live, window, removedBy, clock, logged>>

\* The rest of unregister(ch), and the return.
LeaveUnlock(s) ==
    /\ pc[s] = "unregister"
    /\ Held(s) # {}
    /\ chs' = unregister(chs, s)
    /\ Closed(chs, unregister(chs, s), "unregister")
    /\ pc' = [pc EXCEPT ![s] = "closed"]
    /\ Unlock(s)
    /\ UNCHANGED <<hm, sourceClosed, caughtUp, mw, consumer, run,
                   ctxDone, onConnect, resolveEventId, source, budget, sent, done, queue,
                   req, reqDone, res, onConnectMessages, beats, published, offered,
                   dropped, live, clock, logged>>

------------------------------------------------------------------------------
\* The specifications

\* Clients that send no accept header or a refused one; items that encode.
Next ==
    \/ AppSend(IdShapes)
    \/ Cancel
    \/ ControllerPublish
    \/ ControllerClear
    \/ \E s \in Sessions :
          \/ ClientDisconnect(s)
          \/ Handshake(s, PlainRequests)
          \/ CatchUp(s)
          \/ Register(s)
          \/ LoopTimer(s)
          \/ LoopMessage(s)
          \/ LoopShutdown(s)
          \/ LoopDisconnect(s)

Spec == Init /\ [][Next]_vars

\* The same, started where the queue of A is one item short of full.
SpecBusy == InitBusy /\ [][Next]_vars

\* Clients with every kind of accept and last-event-id header.
NextConnect ==
    \/ AppSend(IdShapes)
    \/ Cancel
    \/ ControllerPublish
    \/ ControllerClear
    \/ \E s \in Sessions :
          \/ ClientDisconnect(s)
          \/ Handshake(s, Requests)
          \/ CatchUp(s)
          \/ Register(s)
          \/ LoopTimer(s)
          \/ LoopMessage(s)
          \/ LoopShutdown(s)
          \/ LoopDisconnect(s)

SpecConnect == Fresh(ConnectMsgs, {TRUE}) /\ [][NextConnect]_vars

\* Items of every shape, those whose encoding panics among them.
NextPanic ==
    \/ AppSend(AllShapes)
    \/ Cancel
    \/ ControllerPublish
    \/ ControllerClear
    \/ \E s \in Sessions :
          \/ ClientDisconnect(s)
          \/ Handshake(s, PlainRequests)
          \/ CatchUp(s)
          \/ Register(s)
          \/ LoopTimer(s)
          \/ LoopMessage(s)
          \/ LoopShutdown(s)
          \/ LoopDisconnect(s)

SpecPanic == Init /\ [][NextPanic]_vars

\* The application starts to send when the context is cancelled already.
NextLate ==
    \/ AppSendLate
    \/ Cancel
    \/ ControllerPublish
    \/ ControllerClear
    \/ \E s \in Sessions :
          \/ ClientDisconnect(s)
          \/ Handshake(s, PlainRequests)
          \/ CatchUp(s)
          \/ Register(s)
          \/ LoopTimer(s)
          \/ LoopMessage(s)
          \/ LoopShutdown(s)
          \/ LoopDisconnect(s)

SpecLate == Init /\ [][NextLate]_vars

\* Items with and without an event id, items json.Marshal fails on, and
\* handlers with and without ResolveEventId.
NextWire ==
    \/ AppSend(WireShapes)
    \/ Cancel
    \/ ControllerPublish
    \/ ControllerClear
    \/ \E s \in Sessions :
          \/ ClientDisconnect(s)
          \/ Handshake(s, PlainRequests)
          \/ CatchUp(s)
          \/ Register(s)
          \/ LoopTimer(s)
          \/ LoopMessage(s)
          \/ LoopShutdown(s)
          \/ LoopDisconnect(s)

SpecWire == Fresh(WireMsgs, BOOLEAN) /\ [][NextWire]_vars

\* The bus's lock is modelled.
NextLock ==
    \/ AppSend(IdShapes)
    \/ Cancel
    \/ ControllerReceive
    \/ ControllerPublishUnlock
    \/ ControllerClearLock
    \/ ControllerClearUnlock
    \/ \E s \in Sessions :
          \/ ClientDisconnect(s)
          \/ Handshake(s, PlainRequests)
          \/ CatchUp(s)
          \/ RegisterLock(s)
          \/ RegisterUnlock(s)
          \/ LoopTimer(s)
          \/ LoopMessage(s)
          \/ LeaveLock(s)
          \/ LeaveUnlock(s)

SpecLock == Fresh(LockMsgs, {TRUE}) /\ [][NextLock]_vars

\* Time is modelled: the timers of the loops fire when their 30 seconds are over.
NextTimed ==
    \/ Tick
    \/ AppSend(IdShapes)
    \/ Cancel
    \/ ControllerPublish
    \/ ControllerClear
    \/ \E s \in Sessions :
          \/ ClientDisconnect(s)
          \/ Handshake(s, PlainRequests)
          \/ CatchUp(s)
          \/ Register(s)
          \/ LoopTimer(s)
          \/ LoopMessage(s)
          \/ LoopShutdown(s)
          \/ LoopDisconnect(s)

SpecTimed == FreshTimed /\ [][NextTimed]_vars

\* Fair scheduling of the goroutines: a select picks among its ready cases at
\* random, so a case that stays ready is taken sooner or later, and a
\* goroutine that can run its next statement runs it. Nothing obliges the
\* application to send, a client to connect or to go away, or the context to
\* be cancelled.
Fairness ==
    /\ WF_vars(ControllerClear)
    /\ \A s \in Sessions :
          /\ WF_vars(CatchUp(s))
          /\ WF_vars(Register(s))
          /\ WF_vars(LoopShutdown(s))

SpecFair == Fresh(FairMsgs, {TRUE}) /\ [][Next]_vars /\ Fairness

\* Connections that fail a write of the loop; once one has, every later write
\* to it fails too.
NextBroken ==
    \/ AppSend(IdShapes)
    \/ Cancel
    \/ ControllerPublish
    \/ ControllerClear
    \/ \E s \in Sessions :
          \/ ClientDisconnect(s)
          \/ Handshake(s, PlainRequests)
          \/ CatchUp(s)
          \/ Register(s)
          \/ ~res[s].werr /\ LoopTimer(s)
          \/ LoopTimerFails(s)
          \/ ~res[s].werr /\ LoopMessage(s)
          \/ LoopMessageFails(s)
          \/ LoopShutdown(s)
          \/ LoopDisconnect(s)

\* The same fairness, and for the disconnect case of the sessions' select.
SpecBroken ==
    /\ Fresh(BrokenMsgs, {TRUE}) /\ [][NextBroken]_vars
    /\ Fairness
    /\ \A s \in Sessions : WF_vars(LoopDisconnect(s))

------------------------------------------------------------------------------
\* Properties of the fan-out

\* Where the controller published message m: its place in published.
PublishedAt(m) == IndexOf(published, m)

\* The sessions that registered a queue.
Registered == { s \in Sessions : window[s] # <<>> }

\* C1: per-subscriber order. Any two messages a session wrote from its queue
\* were published, and the one written first was published first.
PerSubscriberOrder ==
    \A s \in Sessions : \A i, j \in 1..Len(live[s]) :
        i < j => /\ PublishedAt(live[s][i]) > 0
                 /\ PublishedAt(live[s][i]) < PublishedAt(live[s][j])

\* A session wrote two live messages.
PerSubscriberOrderWitness ==
    \E s \in Sessions : Len(live[s]) >= 2

\* C3: no delivery of earlier messages. Every message a session wrote from its
\* queue was published after the session registered, and every data line of
\* its response is a live message's or a message's that OnConnect returned.
NoEarlierMessages ==
    \A s \in Registered :
        /\ \A i \in 1..Len(live[s]) : PublishedAt(live[s][i]) > window[s][1]
        /\ \A k \in 1..window[s][1] :
              DataLine(Marshal(published[k])) \in Range(res[s].body)
                 => published[k] \in Range(onConnectMessages[s])

\* A session that registered after a publish wrote a live message.
NoEarlierMessagesWitness ==
    \E s \in Registered : window[s][1] >= 1 /\ live[s] # <<>>

\* How often e occurs in q.
Count(q, e) == Cardinality({ i \in 1..Len(q) : q[i] = e })

\* What session s has of its queue's traffic: the messages its loop wrote,
\* then the ones waiting in its queue.
Received(s) == live[s] \o queue[s]

\* Message number k was published while s and t both were registered.
InBoth(k, s, t) ==
    /\ k > window[s][1] /\ k > window[t][1]
    /\ Len(window[s]) = 2 => k <= window[s][2]
    /\ Len(window[t]) = 2 => k <= window[t][2]

\* C2 as stated: complete fan-out. A message published while two sessions both
\* were registered is, for each of them that is still registered, written or
\* waiting in its queue exactly once.
FanOutComplete ==
    \A s \in chs : \A t \in Registered \ {s} : \A k \in 1..Len(published) :
        InBoth(k, s, t) => Count(Received(s), published[k]) = 1

\* C2 as amended: the same, except that a message publish dropped for a
\* session, because its queue was full, is not written and not waiting there.
FanOutExceptDropped ==
    \A s \in chs : \A t \in Registered \ {s} : \A k \in 1..Len(published) :
        InBoth(k, s, t) =>
            Count(Received(s), published[k]) = (IF published[k] \in dropped[s] THEN 0 ELSE 1)

\* Both sessions wrote a message published while both were registered.
FanOutWitness ==
    /\ chs = Sessions
    /\ \E k \in 1..Len(published) :
          /\ InBoth(k, "A", "B")
          /\ published[k] \in Range(live["A"]) \cap Range(live["B"])

\* C6: the publisher never blocks. The controller can publish whenever it has
\* an item, whatever the queues hold; publishing appends the item to every
\* registered queue holding fewer than 32 items and changes no other queue
\* and not the live set.
NonBlockingPublisher ==
    /\ [](~done /\ source # <<>> => ENABLED ControllerPublish)
    /\ [][ControllerPublish =>
            /\ chs' = chs
            /\ \A s \in Sessions :
                  queue'[s] = IF s \in chs /\ Len(queue[s]) < 32
                              THEN Append(queue[s], Head(source)) ELSE queue[s]]_vars

\* A message was dropped for A, whose queue was full, and reached B.
NonBlockingPublisherWitness ==
    \E m \in dropped["A"] : m \notin Range(Received("A")) /\ m \in Range(Received("B"))

------------------------------------------------------------------------------
\* Properties of leaving

\* C4 as stated: unregister on disconnect. The step of a session that observes
\* its client's disconnect takes the session's queue out of the live set and
\* makes the live set exactly one smaller; from then on publish offers the
\* queue nothing and nothing is written to the client.
UnregisterOnDisconnect ==
    [][\A s \in Sessions :
          /\ LoopDisconnect(s) => /\ s \notin chs'
                                  /\ Cardinality(chs) = Cardinality(chs') + 1
          /\ pc[s] = "closed" => /\ s \notin chs'
                                 /\ offered'[s] = offered[s]
                                 /\ res'[s] = res[s]]_vars

\* C4 as amended: the step removes the session's queue and no other; the live
\* set gets one smaller if the queue was still in it, and stays as it is if
\* clear() had removed the queue before; the rest as stated.
DisconnectUnregisters ==
    [][\A s \in Sessions :
          /\ LoopDisconnect(s) =>
                /\ chs' = chs \ {s}
                /\ Cardinality(chs') + (IF s \in chs THEN 1 ELSE 0) = Cardinality(chs)
          /\ pc[s] = "closed" => /\ s \notin chs'
                                 /\ offered'[s] = offered[s]
                                 /\ res'[s] = res[s]]_vars

\* A session left because its client disconnected, and the other session
\* wrote a message published after that.
DisconnectUnregistersWitness ==
    \E s \in Sessions : \E t \in Sessions \ {s} :
        /\ pc[s] = "closed" /\ reqDone[s] /\ ~ctxDone /\ removedBy[s] = "unregister"
        /\ \E i \in 1..Len(live[t]) : PublishedAt(live[t][i]) > window[s][2]

\* C5: unregister is idempotent. A session that leaves its loop when its queue
\* is no longer in the live set leaves the live set as it is and still ends;
\* unregistering a queue twice gives what unregistering it once gives.
UnregisterIdempotent ==
    /\ [][\A s \in Sessions :
            (LoopShutdown(s) \/ LoopDisconnect(s)) /\ s \notin chs
                => chs' = chs /\ pc'[s] = "closed"]_vars
    /\ [](\A s \in Sessions :
            /\ unregister(unregister(chs, s), s) = unregister(chs, s)
            /\ s \notin chs => unregister(chs, s) = chs)

\* A session unregistered the queue that clear() had removed already.
UnregisterIdempotentWitness ==
    \E s \in Sessions : pc[s] = "closed" /\ removedBy[s] = "clear"

------------------------------------------------------------------------------
\* Properties of the connection's start

\* The sessions whose request was accepted.
Accepted == { s \in Sessions : pc[s] # "idle" /\ res[s].code # 400 }

\* C7: rejection leaves no trace. A request whose accept header is not empty,
\* is not "*/*" and does not begin with "text/event-stream" is answered 400,
\* its session has ended and never registered a queue; every other request is
\* answered 200; and answering a request does not change the live set.
RejectionLeavesNoTrace ==
    /\ [](\A s \in Sessions : pc[s] # "idle" =>
            LET accept == req[s].accept
            IN  IF /\ accept # <<>>
                   /\ accept # <<"*/*">>
                   /\ ~(Len(accept) >= 1 /\ accept[1] = "text/event-stream")
                THEN /\ res[s].code = 400
                     /\ pc[s] = "closed"
                     /\ s \notin chs /\ window[s] = <<>> /\ offered[s] = <<>>
                ELSE res[s].code = 200)
    /\ [][\A s \in Sessions : pc[s] = "idle" /\ pc'[s] # "idle" => chs' = chs]_vars

\* A request was refused while the other session was registered.
RejectionLeavesNoTraceWitness ==
    \E s \in Sessions : \E t \in chs :
        /\ res[s].code = 400 /\ req[s].accept = AcceptAnyQ
        /\ res[t].code = 200 /\ req[t].accept = AcceptAny

\* C8: handshake before payload. Every step that writes to the body of an
\* accepted response, or registers the session's queue, starts where status
\* 200 and the three headers are written and flushed.
HandshakeBeforePayload ==
    [][\A s \in Sessions :
          (res'[s].code # 400 /\ (res'[s].body # res[s].body \/ (s \in chs' /\ s \notin chs)))
              => /\ res[s].code = 200
                 /\ res[s].header = { <<"content-type", "text/event-stream">>,
                                      <<"cache-control", "no-cache">>,
                                      <<"connection", "keep-alive">> }
                 /\ res[s].headerSent
                 /\ res'[s].code = 200 /\ res'[s].header = res[s].header]_vars

\* A registered session wrote a live message after its first heartbeat.
HandshakeBeforePayloadWitness ==
    \E s \in chs : res[s].headerSent /\ Len(res[s].body) >= 2 /\ live[s] # <<>>

\* The frames of messages: for each that json.Marshal encodes, the id line
\* when ResolveEventId is set and gives an id, then the data line.
RECURSIVE Frames(_)
Frames(messages) ==
    IF messages = <<>> THEN <<>>
    ELSE LET m == Head(messages)
         IN  IF m.enc # "ok" THEN Frames(Tail(messages))
             ELSE (IF resolveEventId /\ m.eventId # "" THEN <<IdLine(m.eventId)>> ELSE <<>>)
                  \o <<DataLine(Marshal(m))>> \o Frames(Tail(messages))

\* C9: catch-up comes first. Once the catch-up of an accepted session is done:
\* if OnConnect is set and returns messages for the request's last-event-id,
\* the body begins with exactly their frames, in order, and what follows is
\* the frames of the live messages (and the heartbeats of the loop); otherwise
\* the body begins with the one heartbeat of the catch-up.
CatchUpFirst ==
    \A s \in Accepted : pc[s] # "catchup" =>
        LET messages == IF onConnect THEN OnConnect(req[s].lastEventId) ELSE <<>>
            first == IF messages # <<>> THEN Frames(messages) ELSE <<HeartbeatLine>>
            body == res[s].body
        IN  /\ IsPrefix(first, body)
            /\ pc[s] = "register" => body = first
            /\ Without(SubSeq(body, Len(first) + 1, Len(body)), {HeartbeatLine})
                  = Frames(live[s])

\* A session replayed one message of the backlog and then wrote a live one.
CatchUpFirstWitness ==
    \E s \in Accepted :
        /\ onConnect /\ Len(OnConnect(req[s].lastEventId)) = 1
        /\ live[s] # <<>>
        /\ res[s].body = Frames(OnConnect(req[s].lastEventId)) \o Frames(live[s])

\* C10: guaranteed unregistration. The live set holds no queue of a session
\* that has ended, however it ended.
GuaranteedUnregistration ==
    \A s \in Sessions : pc[s] \in {"closed", "panicked"} => s \notin chs

------------------------------------------------------------------------------
\* Properties of cancellation and shutdown

\* C11: racing cancellations. Whichever of the two cancellations a session in
\* its loop observes, and whether or not the other has fired too, the step takes
\* the session's queue and no other out of the live set and ends the session,
\* and changes nothing else of the handler: the outcome does not depend on
\* which signals have fired.
RacingCancellations ==
    [][\A s \in Sessions :
          (LoopShutdown(s) \/ LoopDisconnect(s)) =>
              /\ pc[s] = "loop" /\ (ctxDone \/ reqDone[s])
              /\ chs' = chs \ {s}
              /\ pc' = [pc EXCEPT ![s] = "closed"]
              /\ queue' = queue /\ res' = res /\ done' = done
              /\ source' = source /\ published' = published]_vars

\* A session whose client disconnected after the shutdown signal, or before
\* it, has written a live message and has ended, having unregistered its queue
\* itself.
RacingCancellationsWitness ==
    \E s \in Sessions :
        /\ ctxDone /\ reqDone[s] /\ pc[s] = "closed"
        /\ removedBy[s] = "unregister" /\ live[s] # <<>>

\* C12: shutdown tears everything down. Under fair scheduling, once the
\* handler's context is cancelled the controller calls clear(), which empties
\* the live set in that step; the live set is empty sooner or later; and every
\* session that is in its loop then, or gets there, ends.
ShutdownTearsDown ==
    /\ ctxDone ~> done
    /\ [][done' /\ ~done => ctxDone /\ chs' = {}]_vars
    /\ ctxDone ~> (chs = {})
    /\ \A s \in Sessions :
          (ctxDone /\ pc[s] \in {"catchup", "register", "loop"}) ~> (pc[s] = "closed")

\* Both sessions were registered when clear() emptied the live set, and both
\* have ended since.
ShutdownTearsDownWitness ==
    /\ ctxDone /\ done /\ chs = {}
    /\ \A s \in Sessions : pc[s] = "closed" /\ removedBy[s] = "clear" /\ ~reqDone[s]

\* The data lines of the items the application has sent so far.
SentDataLines == { DataLine(Marshal(Msg(x, "", "ok"))) : x \in 1..sent }

\* C13 as stated: nothing is delivered after shutdown. Where the application
\* sends every item after the cancellation of the handler's context, no
\* session writes an item from its queue and no response holds an item's data
\* line.
NothingDeliveredAfterCancel ==
    \A s \in Sessions : live[s] = <<>> /\ Range(res[s].body) \cap SentDataLines = {}

\* C13 as amended: nothing sent after clear() is delivered. Once the
\* controller has observed the cancellation and called clear(), it takes no
\* item from the source and publishes none, so an item sent after that stays
\* in the source channel; no item of the source channel is in a queue or in a
\* response; and what a session writes from its queue after that is an item
\* published before clear().
NothingDeliveredAfterClear ==
    /\ [](done => \A s \in Sessions : \A m \in Range(source) :
                      /\ m \notin Range(queue[s]) \cup Range(live[s])
                      /\ DataLine(Marshal(m)) \notin Range(res[s].body))
    /\ [][done => /\ published' = published
                  /\ IsPrefix(source, source')
                  /\ \A s \in Sessions :
                        /\ IsPrefix(live[s], live'[s])
                        /\ Range(live'[s]) \subseteq Range(published)]_vars

\* After clear() the application sent an item, which waits in the source
\* channel, and a session that had written an item before has ended.
NothingDeliveredAfterClearWitness ==
    /\ done /\ source # <<>> /\ published # <<>>
    /\ Head(source).x = Len(published) + 1
    /\ \E s \in Sessions : pc[s] = "closed" /\ removedBy[s] = "clear" /\ live[s] # <<>>

------------------------------------------------------------------------------
\* Properties of the heartbeat

\* The sessions that wait in the select of their loop with no case ready.
Idle == { s \in Sessions : pc[s] = "loop" /\ queue[s] = <<>> /\ ~ctxDone /\ ~reqDone[s] }

\* C14: heartbeat on idle. A session that waits in its loop is never silent
\* for more than 30 seconds; the step of its timer comes when it has been
\* silent for 30 seconds, appends the line ":\n\n" to the response and flushes
\* it, and leaves the session in its loop with its queue registered as before.
HeartbeatOnIdle ==
    /\ [](\A s \in Idle : clock.quiet[s] <= 30)
    /\ [][\A s \in Sessions : LoopTimer(s) =>
            /\ clock.quiet[s] = 30 /\ clock'.quiet[s] = 0
            /\ res'[s].body = Append(res[s].body, ":\n\n")
            /\ res'[s].flushed = Len(res'[s].body)
            /\ pc'[s] = "loop" /\ chs' = chs /\ queue' = queue]_vars

\* An idle session has written a live message and, since then, two heartbeats
\* 30 seconds apart, and has been silent for 30 seconds again.
HeartbeatOnIdleWitness ==
    \E s \in Idle :
        /\ live[s] # <<>> /\ clock.quiet[s] = 30
        /\ LET n == Len(res[s].body)
           IN  n >= 3 /\ res[s].body[n] = ":\n\n" /\ res[s].body[n - 1] = ":\n\n"
                      /\ res[s].body[n - 2] # ":\n\n"

------------------------------------------------------------------------------
\* Properties of the wire format

\* The bytes the claim gives for one message that encodes.
WireFrame(m) ==
    (IF resolveEventId /\ m.eventId # "" THEN "id: " \o m.eventId \o "\n" ELSE "")
    \o "data: " \o Marshal(m) \o "\n\n"

\* The same for the messages of a batch, those left out that do not encode.
RECURSIVE WireFrames(_)
WireFrames(messages) ==
    IF messages = <<>> THEN ""
    ELSE (IF Head(messages).enc = "ok" THEN WireFrame(Head(messages)) ELSE "")
         \o WireFrames(Tail(messages))

\* C15: wire format. A step that writes a message from the queue, the message
\* being one that encodes, adds to the response exactly "id: <id>\n" if
\* ResolveEventId is set and gives a non-empty id, and nothing otherwise, then
\* "data: <json>\n\n"; and the catch-up adds just that for each of its
\* messages that encodes, in order.
WireFormat ==
    [][\A s \in Sessions :
          /\ (pc[s] = "loop" /\ live'[s] # live[s] /\ Head(queue[s]).enc = "ok") =>
                Join(res'[s].body) = Join(res[s].body) \o WireFrame(Head(queue[s]))
          /\ (pc[s] = "catchup" /\ pc'[s] = "register" /\ onConnectMessages'[s] # <<>>) =>
                Join(res'[s].body) = Join(res[s].body) \o WireFrames(onConnectMessages'[s])]_vars

\* With ResolveEventId set, a session has replayed messages with their id
\* lines and written a live message that has no event id as a data line alone.
WireFormatWitness ==
    \E s \in Sessions :
        /\ resolveEventId /\ onConnectMessages[s] # <<>>
        /\ Len(live[s]) = 1 /\ live[s][1].eventId = "" /\ live[s][1].enc = "ok"
        /\ Join(res[s].body) = WireFrames(onConnectMessages[s])
                                  \o "data: " \o Marshal(live[s][1]) \o "\n\n"

\* The id lines of all messages.
IdLines == { IdLine(EventIds[x]) : x \in DOMAIN EventIds }

Encodes(m) == m.enc = "ok"
Fails(m) == m.enc = "err"

\* The messages session s has given to write: its catch-up, then the live ones.
Written(s) == onConnectMessages[s] \o live[s]

\* C16: serialization failure is local. For a session past its catch-up: each
\* message json.Marshal failed on is logged, once, and neither its id line nor
\* its data line is in the response; the data lines of the response are those
\* of the other messages, in the order they were given to write; and the step
\* that meets such a message in the queue writes nothing and leaves the session
\* in its loop and the live set as it is, as the catch-up that meets one goes
\* on to register the queue.
SerializationFailureIsLocal ==
    /\ [](\A s \in Accepted : pc[s] # "catchup" =>
            /\ logged[s] = SelectSeq(Written(s), Fails)
            /\ \A i \in 1..Len(logged[s]) :
                  /\ IdLine(logged[s][i].eventId) \notin Range(res[s].body)
                  /\ DataLine(Marshal(logged[s][i])) \notin Range(res[s].body)
            /\ Without(res[s].body, IdLines \cup {HeartbeatLine})
                  = [i \in 1..Len(SelectSeq(Written(s), Encodes)) |->
                        DataLine(Marshal(SelectSeq(Written(s), Encodes)[i]))])
    /\ [][\A s \in Sessions :
            /\ (pc[s] = "loop" /\ live'[s] # live[s] /\ Fails(Head(queue[s]))) =>
                  /\ res'[s].body = res[s].body
                  /\ pc'[s] = "loop" /\ chs' = chs
            /\ (pc[s] = "catchup" /\ pc'[s] # "catchup") => pc'[s] = "register"]_vars

\* A session whose catch-up skipped its second message and wrote the first and
\* the third has met a message that does not encode in its queue too, and is
\* in its loop, registered.
SerializationFailureIsLocalWitness ==
    \E s \in chs :
        /\ pc[s] = "loop" /\ Len(logged[s]) = 2
        /\ Len(onConnectMessages[s]) = 3 /\ Fails(onConnectMessages[s][2])
        /\ Len(live[s]) = 1 /\ Fails(live[s][1])
        /\ Without(res[s].body, IdLines)
              = << DataLine(Marshal(onConnectMessages[s][1])),
                   DataLine(Marshal(onConnectMessages[s][3])) >>

------------------------------------------------------------------------------
\* Properties of a failing connection

\* C17: a transport write failure ends the session cleanly. Under fair
\* scheduling a session whose write failed ends, its queue out of the live
\* set; and neither the step of the failing write nor the step that ends the
\* session changes the controller, the source, another session or another
\* session's queue, response or membership of the live set.
WriteFailureEndsSession ==
    /\ \A s \in Sessions : res[s].werr ~> (pc[s] = "closed" /\ s \notin chs)
    /\ [][\A s \in Sessions :
            (res[s].werr # res'[s].werr \/ (res[s].werr /\ pc[s] # pc'[s])) =>
                /\ done' = done /\ source' = source /\ published' = published
                /\ chs' \in {chs, chs \ {s}}
                /\ \A t \in Sessions \ {s} :
                      /\ pc'[t] = pc[t] /\ res'[t] = res[t] /\ queue'[t] = queue[t]
                      /\ reqDone'[t] = reqDone[t]]_vars

\* A session whose write failed has ended by its disconnect case, and the
\* other session has written a message published after that.
WriteFailureEndsSessionWitness ==
    \E s \in Sessions : \E t \in Sessions \ {s} :
        /\ res[s].werr /\ pc[s] = "closed" /\ ~ctxDone /\ removedBy[s] = "unregister"
        /\ ~res[t].werr
        /\ \E i \in 1..Len(live[t]) : PublishedAt(live[t][i]) > window[s][2]

------------------------------------------------------------------------------
\* Properties of the controller

\* The items the application has sent, in the order it sent them.
SentItems == [x \in 1..sent |-> Msg(x, EventIds[x], "ok")]

\* C18: controller bridging. What the controller has passed to publish, followed
\* by what waits in the source channel, is what the application sent, in that
\* order; a step of the controller that publishes takes the first waiting item
\* and publishes it alone; the step that sets done is taken with the context
\* cancelled and empties the live set; and once done is set the controller
\* can take no step: done stays set, nothing is published and nothing leaves
\* the source channel.
ControllerBridging ==
    /\ [](published \o source = SentItems)
    /\ [](done => ~ENABLED ControllerPublish /\ ~ENABLED ControllerClear)
    /\ [][/\ published' # published =>
                /\ ~done /\ source # <<>>
                /\ published' = Append(published, Head(source))
                /\ source' = Tail(source)
          /\ done' # done => ~done /\ ctxDone /\ chs' = {}
          /\ done => done' /\ published' = published /\ IsPrefix(source, source')]_vars

\* The controller has published an item, a session has written it, and clear()
\* has run and taken that session's queue out of the live set; an item sent
\* since waits in the source channel.
ControllerBridgingWitness ==
    /\ done /\ published # <<>> /\ source # <<>>
    /\ \E s \in Sessions : live[s] = published /\ removedBy[s] = "clear"

------------------------------------------------------------------------------
\* Properties of the bus's lock

\* C19: bus serialization without I/O under the lock. At most one call of the
\* bus holds the lock; the live set changes, and a queue gets a message, only
\* in the step of the one call that holds the lock and gives it back in that
\* step; and a step that writes to a session's response is taken when that
\* session holds no lock, as no step in which the controller gives the lock
\* back writes to any response.
BusSerialization ==
    /\ [](Cardinality(mu) <= 1)
    /\ [][(chs' # chs \/ \E s \in Sessions : Len(queue'[s]) > Len(queue[s]))
              => Cardinality(mu) = 1 /\ mu' = {}]_vars
    /\ [][\A s \in Sessions : res'[s] # res[s] => Held(s) = {}]_vars
    /\ [][Held("controller") # {} /\ mu' = {} => res' = res]_vars

\* The controller holds the lock for a publish while one session, its catch-up
\* written, waits to register, and the other, registered, is in its loop and
\* has written a heartbeat there.
BusSerializationWitness ==
    /\ \E h \in Held("controller") : h.arg # <<>>
    /\ \E s \in Sessions : \E t \in chs \ {s} :
          /\ pc[s] = "register" /\ res[s].body # <<>>
          /\ pc[t] = "loop" /\ Len(res[t].body) >= 2

------------------------------------------------------------------------------
\* Package hmac: a request is signed, then verified

sseVars == <<ctxDone, onConnect, resolveEventId, source, budget, sent, done, chs, queue,
             pc, req, reqDone, res, onConnectMessages, beats, published, offered,
             dropped, live, window, removedBy, logged, mu, clock>>

\* A signer with some secret is about to sign a request with some body that
\* carries a request ID, a timestamp, both or neither.
InitHmac ==
    /\ Constructed(0, {TRUE})
    /\ clock = NoClock
    /\ run = NoRun
    /\ consumer = NoConsumer
    /\ mw = NoExchange
    /\ caughtUp = NoCatchUps
    /\ sourceClosed = FALSE
    /\ hm \in { Unsigned(k, HmacHeader(i, t), b) :
                  k \in Secrets, i \in RequestIds \cup {""},
                  t \in Timestamps \cup {""}, b \in Bodies }

\* s.Sign(req, body)
SignRequest ==
    /\ ~hm.signed
    /\ \E uuid \in Uuids : \E now \in Nows :
          hm' = [hm EXCEPT !.header = Sign(hm.secret, hm.header, hm.body, uuid, now),
                           !.original = Sign(hm.secret, hm.header, hm.body, uuid, now),
                           !.signed = TRUE]
    /\ UNCHANGED <<sseVars, run, consumer, mw, caughtUp, sourceClosed>>

\* v.Verify(req, body), for a verifier with any secret, given any body
SignedRequestVerify ==
    /\ hm.signed
    /\ ~hm.verified
    /\ \E k \in Secrets : \E b \in Bodies :
          hm' = [hm EXCEPT !.verified = TRUE, !.verifier = k, !.given = b,
                           !.err = Verify(k, hm.header, b)]
    /\ UNCHANGED <<sseVars, run, consumer, mw, caughtUp, sourceClosed>>

NextHmac ==
    \/ SignRequest
    \/ SignedRequestVerify

SpecHmac == InitHmac /\ [][NextHmac]_vars

\* C20: a request signed by Sign is accepted by Verify with the same secret and
\* the same body, whatever the secret, the body and the request ID and
\* timestamp the request arrived with; and the signature header Sign sets is
\* "sha256=" followed by the hex HMAC-SHA256, under the signer's secret, of the
\* request ID, the timestamp and the body concatenated in that order.
HmacRoundTrip ==
    hm.signed =>
        /\ Get(hm.header, HeaderRequestId) # ""
        /\ Get(hm.header, HeaderRequestTimestamp) # ""
        /\ Get(hm.header, HeaderSignature) =
              "sha256=" \o Hex(HmacSha256(hm.secret,
                                          Get(hm.header, HeaderRequestId)
                                          \o Get(hm.header, HeaderRequestTimestamp)
                                          \o hm.body))
        /\ (hm.verified /\ hm.verifier = hm.secret /\ hm.given = hm.body) => hm.err = Nil

\* A request that arrived without a request ID, with a timestamp and a body was
\* signed, and verified with the same secret and body.
HmacRoundTripWitness ==
    /\ hm.signed /\ hm.verified
    /\ hm.verifier = hm.secret /\ hm.given = hm.body
    /\ Get(hm.header, HeaderRequestId) \in Uuids
    /\ Get(hm.header, HeaderRequestTimestamp) \in Timestamps
    /\ hm.body # ""
    /\ hm.err = Nil

\* A signed request is altered on its way to the verifier: its request ID and
\* its timestamp are replaced or removed, its signature is removed, stripped
\* of its prefix, cut short or replaced.
Signatures(signature) ==
    { signature, <<>>, Tail(signature), <<"sha256=">>, <<"sha256=", "deadbeef">> }

Tamper ==
    /\ hm.signed
    /\ ~hm.verified
    /\ hm.header = hm.original
    /\ \E i \in RequestIds \cup {"", Get(hm.header, HeaderRequestId)} :
       \E t \in Timestamps \cup {"", Get(hm.header, HeaderRequestTimestamp)} :
       \E g \in Signatures(hm.header[HeaderSignature]) :
          /\ hm' = [hm EXCEPT !.header = [HmacHeader(i, t) EXCEPT ![HeaderSignature] = g]]
          /\ hm'.header # hm.header
    /\ UNCHANGED <<sseVars, run, consumer, mw, caughtUp, sourceClosed>>

NextTamper ==
    \/ SignRequest
    \/ Tamper
    \/ SignedRequestVerify

SpecTamper == InitHmac /\ [][NextTamper]_vars

\* The signature Verify computes for the request it is given.
Computed == "sha256=" \o Hex(HmacSha256(hm.verifier,
                                        Get(hm.header, HeaderRequestId)
                                        \o Get(hm.header, HeaderRequestTimestamp)
                                        \o hm.given))

\* Verify fails when a header is missing or empty, when the signature lacks
\* its prefix, and when the signature is not the computed one.
RejectsUnsigned ==
    (/\ hm.verified
     /\ \/ Get(hm.header, HeaderRequestId) = ""
        \/ Get(hm.header, HeaderRequestTimestamp) = ""
        \/ Get(hm.header, HeaderSignature) = ""
        \/ ~HasPrefix(hm.header[HeaderSignature], "sha256=")
        \/ Get(hm.header, HeaderSignature) # Computed)
    => hm.err = ErrVerificationFailed

\* A header is missing, the prefix is missing, the signature is another one:
\* each was verified and failed.
RejectsUnsignedWitness ==
    /\ hm.verified /\ hm.err = ErrVerificationFailed
    /\ hm.verifier = hm.secret /\ hm.given = hm.body
    /\ Get(hm.header, HeaderRequestId) = Get(hm.original, HeaderRequestId)
    /\ Get(hm.header, HeaderRequestTimestamp) = Get(hm.original, HeaderRequestTimestamp)
    /\ hm.header[HeaderSignature] = Tail(hm.original[HeaderSignature])

\* Verify fails when the secret, the request ID, the timestamp or the body is
\* not the one that was signed.
RejectsAltered ==
    (/\ hm.verified
     /\ \/ hm.verifier # hm.secret
        \/ Get(hm.header, HeaderRequestId) # Get(hm.original, HeaderRequestId)
        \/ Get(hm.header, HeaderRequestTimestamp) # Get(hm.original, HeaderRequestTimestamp)
        \/ hm.given # hm.body)
    => hm.err # Nil

\* C21: Verify returns ErrVerificationFailed whenever the request ID, the
\* timestamp or the signature is missing or empty, the signature lacks the
\* "sha256=" prefix or is not the one computed from the verifier's secret and
\* the request ID, timestamp and body it is given; and no request is verified
\* whose secret, request ID, timestamp or body differs from what was signed.
HmacRejection == RejectsUnsigned /\ RejectsAltered

\* s.Sign(req, body) on the request s.Sign returned, with the same body
SignAgain ==
    /\ hm.signed
    /\ ~hm.again
    /\ ~hm.verified
    /\ \E uuid \in Uuids : \E now \in Nows :
          hm' = [hm EXCEPT !.header = Sign(hm.secret, hm.header, hm.body, uuid, now),
                           !.again = TRUE]
    /\ UNCHANGED <<sseVars, run, consumer, mw, caughtUp, sourceClosed>>

NextResign ==
    \/ SignRequest
    \/ SignAgain

SpecResign == InitHmac /\ [][NextResign]_vars

\* Sign kept the header if the request had it, and set a generated value of
\* the set `fresh` if it had not.
Kept(name, fresh) ==
    IF Get(hm.header, name) # "" THEN hm'.header[name] = hm.header[name]
    ELSE Get(hm'.header, name) \in fresh

\* C22: Sign keeps a request ID and a timestamp the request already has and
\* generates them only when absent, sets all three headers, sets a signature
\* that is determined by the secret, the request ID, the timestamp and the
\* body, and leaves the three headers of an already signed request unchanged.
SignPreserves ==
    [][ /\ Kept(HeaderRequestId, Uuids)
        /\ Kept(HeaderRequestTimestamp, Nows)
        /\ \A n \in HmacHeaders : Get(hm'.header, n) # ""
        /\ Get(hm'.header, HeaderSignature) =
              "sha256=" \o Hex(HmacSha256(hm.secret,
                                          Get(hm'.header, HeaderRequestId)
                                          \o Get(hm'.header, HeaderRequestTimestamp)
                                          \o hm.body))
        /\ hm.signed => hm'.header = hm.header ]_vars

\* A request that arrived with a timestamp and without a request ID was signed
\* twice: it has the request ID generated at the first signing.
SignPreservesWitness ==
    /\ hm.again
    /\ hm.header = hm.original
    /\ Get(hm.header, HeaderRequestId) \in Uuids
    /\ Get(hm.header, HeaderRequestTimestamp) \in Timestamps

------------------------------------------------------------------------------
\* Package rmq: a consumer runs

\* RunConsumer was called on a consumer whose deliveries channel is open and
\* empty.
InitRun ==
    /\ Constructed(0, {TRUE})
    /\ clock = NoClock
    /\ hm = NoRequest
    /\ sourceClosed = FALSE
    /\ caughtUp = NoCatchUps
    /\ mw = NoExchange
    /\ consumer = NoConsumer
    /\ run = RunOf("range", FALSE)

\* The broker sends a delivery to c.deliveries.
Deliver ==
    /\ ~run.closed
    /\ run.arrived < MaxDeliveries
    /\ \E body \in DeliveryBodies :
          run' = [run EXCEPT !.arrived = @ + 1,
                             !.deliveries = Append(@, Delivery(run.arrived + 1, body))]
    /\ UNCHANGED <<sseVars, hm, consumer, mw, caughtUp, sourceClosed>>

\* c.deliveries is closed (the AMQP channel or connection went away).
CloseDeliveries ==
    /\ ~run.closed
    /\ run' = [run EXCEPT !.closed = TRUE]
    /\ UNCHANGED <<sseVars, hm, consumer, mw, caughtUp, sourceClosed>>

\* for d := range c.deliveries: the next delivery
RangeNext ==
    /\ run.at = "range"
    /\ run.deliveries # <<>>
    /\ run' = [run EXCEPT !.d = Head(run.deliveries), !.deliveries = Tail(@),
                          !.at = "unmarshal"]
    /\ UNCHANGED <<sseVars, hm, consumer, mw, caughtUp, sourceClosed>>

\* for d := range c.deliveries: the channel is closed and empty; return nil
RangeEnd ==
    /\ run.at = "range"
    /\ run.deliveries = <<>>
    /\ run.closed
    /\ run' = [run EXCEPT !.at = "returned", !.ret = ReturnedNil]
    /\ UNCHANGED <<sseVars, hm, consumer, mw, caughtUp, sourceClosed>>

\* json.Unmarshal(d.Body, &ev); on an error, return it
Unmarshal ==
    /\ run.at = "unmarshal"
    /\ run' = IF UnmarshalFails(run.d)
              THEN [run EXCEPT !.at = "returned", !.ret = UnmarshalError]
              ELSE [run EXCEPT !.at = "handle"]
    /\ UNCHANGED <<sseVars, hm, consumer, mw, caughtUp, sourceClosed>>

HandleThenAckAnyway ==
    /\ run.at = "handle"
    /\ \E failed \in BOOLEAN :
          run' = IF failed
                 THEN [run EXCEPT !.handled = Append(@, run.d.tag), !.at = "ack"]
                 ELSE [run EXCEPT !.handled = Append(@, run.d.tag),
                                  !.succeeded = Append(@, run.d.tag), !.at = "ack"]
    /\ UNCHANGED <<sseVars, hm, consumer, mw, caughtUp, sourceClosed>>

\* f(c.ctx, logger, &ev), which returns nil or an error; on an error, return it
Handle ==
    /\ run.at = "handle"
    /\ \E failed \in BOOLEAN :
          run' = IF failed
                 THEN [run EXCEPT !.handled = Append(@, run.d.tag),
                                  !.at = "returned", !.ret = HandlerError]
                 ELSE [run EXCEPT !.handled = Append(@, run.d.tag),
                                  !.succeeded = Append(@, run.d.tag), !.at = "ack"]
    /\ UNCHANGED <<sseVars, hm, consumer, mw, caughtUp, sourceClosed>>

\* d.Ack(false), which returns nil or an error; on an error, return it
Ack ==
    /\ run.at = "ack"
    /\ \E failed \in BOOLEAN :
          run' = IF failed
                 THEN [run EXCEPT !.acked = Append(@, run.d.tag),
                                  !.at = "returned", !.ret = AckError]
                 ELSE [run EXCEPT !.acked = Append(@, run.d.tag), !.at = "range"]
    /\ UNCHANGED <<sseVars, hm, consumer, mw, caughtUp, sourceClosed>>

NextRun ==
    \/ Deliver
    \/ CloseDeliveries
    \/ RangeNext
    \/ RangeEnd
    \/ Unmarshal
    \/ Handle
    \/ Ack

SpecRun == InitRun /\ [][NextRun]_vars

\* Deliveries are handled in arrival order, each once; one is handled only
\* when every earlier one is acknowledged; one is acknowledged only after the
\* handler returned nil for it, and once.
OneAtATime ==
    /\ run.handled = [i \in 1..Len(run.handled) |-> i]
    /\ IsPrefix(run.succeeded, run.handled)
    /\ IsPrefix(run.acked, run.succeeded)
    /\ Len(run.handled) <= Len(run.acked) + 1

\* RunConsumer has returned exactly when it has a result; after an unmarshal
\* error the current delivery was neither handled nor acknowledged, after a
\* handler error it was not acknowledged, and nil is returned only with the
\* deliveries channel closed and empty.
ReturnsTheError ==
    /\ run.at = "returned" <=> run.ret # Running
    /\ run.ret = UnmarshalError =>
          /\ UnmarshalFails(run.d)
          /\ run.d.tag \notin Range(run.handled) \cup Range(run.acked)
    /\ run.ret = HandlerError =>
          /\ run.d.tag \in Range(run.handled)
          /\ run.d.tag \notin Range(run.succeeded) \cup Range(run.acked)
    /\ run.ret = AckError => run.d.tag \in Range(run.acked)
    /\ run.ret = ReturnedNil => run.closed /\ run.deliveries = <<>>

\* The step on which unmarshalling, the handler or the acknowledgement fails
\* is the step on which RunConsumer returns; once it has returned nothing is
\* handled or acknowledged.
HaltsAtOnce ==
    /\ (run.at = "unmarshal" /\ run'.at # run.at /\ UnmarshalFails(run.d))
          => run'.ret = UnmarshalError
    /\ (run.at = "handle" /\ run'.at # run.at /\ run'.succeeded = run.succeeded)
          => run'.ret = HandlerError
    /\ (run.at = "ack" /\ run'.at \notin {run.at, "range"}) => run'.ret = AckError
    /\ run.at = "returned" =>
          /\ run'.ret = run.ret
          /\ run'.handled = run.handled
          /\ run'.acked = run.acked

\* C23: RunConsumer handles deliveries one at a time in arrival order,
\* acknowledges a delivery only after the handler returned nil for it and at
\* most once, returns the error of a failed unmarshal, handler or
\* acknowledgement at once, without acknowledging the current delivery on the
\* first two and without handling or acknowledging anything later, and returns
\* nil only when the deliveries channel is closed and drained.
RunConsumerProtocol ==
    /\ [](OneAtATime /\ ReturnsTheError)
    /\ [][run' # run => HaltsAtOnce]_vars

\* The handler failed on the second delivery, after the first was acknowledged,
\* with a third delivery waiting.
RunConsumerProtocolWitness ==
    /\ run.ret = HandlerError
    /\ run.acked = <<1>>
    /\ run.handled = <<1, 2>>
    /\ run.deliveries # <<>>

------------------------------------------------------------------------------
\* Package rmq: consumers are made

\* The application is about to call NewConsumer for each of its declarations.
InitConsumers ==
    /\ Constructed(0, {TRUE})
    /\ clock = NoClock
    /\ hm = NoRequest
    /\ sourceClosed = FALSE
    /\ caughtUp = NoCatchUps
    /\ mw = NoExchange
    /\ run = NoRun
    /\ consumer \in [ Declarations -> { ConsumerOf(t, "new") : t \in QueueTypes } ]

\* ch, err := conn.Channel(); on an error, return it
OpenChannel(d) ==
    /\ consumer[d].at = "new"
    /\ \E failed \in BOOLEAN :
          consumer' = [consumer EXCEPT ![d] =
                          IF failed THEN [@ EXCEPT !.at = "failed", !.err = TRUE]
                          ELSE [@ EXCEPT !.at = "channel", !.ch = "open"]]
    /\ UNCHANGED <<sseVars, hm, run, mw, caughtUp, sourceClosed>>

\* receiver, err := d.initReceiver(ch): newWorkReceiver closes the channel when
\* it fails to declare the queue; newFanoutReceiver may or may not have closed
\* it when it fails; a type that is neither is an error.
InitReceiver(d) ==
    /\ consumer[d].at = "channel"
    /\ \E failed \in BOOLEAN : \E closed \in BOOLEAN :
          /\ consumer[d].type = QueueTypeWork => closed = failed
          /\ consumer[d].type = QueueTypeFanout => (closed => failed)
          /\ consumer[d].type \notin {QueueTypeWork, QueueTypeFanout} => failed /\ ~closed
          /\ consumer' = [consumer EXCEPT ![d] =
                             IF ~failed THEN [@ EXCEPT !.at = "receiver"]
                             ELSE IF closed THEN [ChannelClose(@) EXCEPT !.at = "initFailed"]
                             ELSE [@ EXCEPT !.at = "initFailed"]]
    /\ UNCHANGED <<sseVars, hm, run, mw, caughtUp, sourceClosed>>

\* initReceiver failed: ch.Close(); return nil, err
ReleaseAfterInit(d) ==
    /\ consumer[d].at = "initFailed"
    /\ consumer' = [consumer EXCEPT ![d] =
                       [ChannelClose(@) EXCEPT !.at = "failed", !.err = TRUE]]
    /\ UNCHANGED <<sseVars, hm, run, mw, caughtUp, sourceClosed>>

\* deliveries, err := receiver.Recv(ctx); when it succeeds, return the Consumer
Recv(d) ==
    /\ consumer[d].at = "receiver"
    /\ \E failed \in BOOLEAN :
          consumer' = [consumer EXCEPT ![d] =
                          IF failed THEN [@ EXCEPT !.at = "recvFailed"]
                          ELSE [@ EXCEPT !.at = "ready", !.consumer = TRUE]]
    /\ UNCHANGED <<sseVars, hm, run, mw, caughtUp, sourceClosed>>

ReturnAfterRecv(d) ==
    /\ consumer[d].at = "recvFailed"
    /\ consumer' = [consumer EXCEPT ![d] = [@ EXCEPT !.at = "failed", !.err = TRUE]]
    /\ UNCHANGED <<sseVars, hm, run, mw, caughtUp, sourceClosed>>

\* Recv failed: receiver.Close(), which closes the channel; return nil, err
ReleaseAfterRecv(d) ==
    /\ consumer[d].at = "recvFailed"
    /\ consumer' = [consumer EXCEPT ![d] =
                       [ReceiverClose(@) EXCEPT !.at = "failed", !.err = TRUE]]
    /\ UNCHANGED <<sseVars, hm, run, mw, caughtUp, sourceClosed>>

\* c.Close() on the Consumer NewConsumer returned: c.receiver.Close()
ConsumerClose(d) ==
    /\ consumer[d].at = "ready"
    /\ consumer' = [consumer EXCEPT ![d] = [ReceiverClose(@) EXCEPT !.at = "closed"]]
    /\ UNCHANGED <<sseVars, hm, run, mw, caughtUp, sourceClosed>>

NextConsumers ==
    \E d \in Declarations :
        \/ OpenChannel(d)
        \/ InitReceiver(d)
        \/ ReleaseAfterInit(d)
        \/ Recv(d)
        \/ ReleaseAfterRecv(d)
        \/ ConsumerClose(d)

SpecConsumers == InitConsumers /\ [][NextConsumers]_vars

------------------------------------------------------------------------------
\* Package entry: a request goes through Middleware

\* A request with or without an x-request-id arrives at the middleware.
InitMiddleware ==
    /\ Constructed(0, {TRUE})
    /\ clock = NoClock
    /\ hm = NoRequest
    /\ sourceClosed = FALSE
    /\ caughtUp = NoCatchUps
    /\ run = NoRun
    /\ consumer = NoConsumer
    /\ mw \in { Exchange("new", h) : h \in IncomingIds }

\* The middleware up to its call of next.ServeHTTP: the request ID is read or
\* generated, put into the context of the request and set on the response.
MiddlewareBegin ==
    /\ mw.at = "new"
    /\ \E uuid \in FreshIds :
          LET requestId == IF mw.header = "" THEN uuid ELSE mw.header
          IN  mw' = [mw EXCEPT !.requestId = requestId,
                               !.ctx = WithValue(requestId),
                               !.response = requestId,
                               !.at = "handler"]
    /\ UNCHANGED <<sseVars, hm, run, consumer, caughtUp, sourceClosed>>

\* The handler prepares an outgoing request, with or without an x-request-id
\* of its own, and calls ConveyRequestId with the context of its request or
\* with a context that has no request ID.
HandlerConvey ==
    /\ mw.at = "handler"
    /\ Len(mw.outgoing) < MaxOutgoing
    /\ \E own \in OutgoingIds : \E ctx \in {mw.ctx, NoValue} :
          mw' = [mw EXCEPT !.outgoing =
                    Append(@, [ own |-> own, ctx |-> ctx,
                                header |-> ConveyRequestId(ctx, own) ])]
    /\ UNCHANGED <<sseVars, hm, run, consumer, caughtUp, sourceClosed>>

\* next.ServeHTTP returns, and the middleware logs that the request finished.
MiddlewareEnd ==
    /\ mw.at = "handler"
    /\ mw' = [mw EXCEPT !.at = "finished"]
    /\ UNCHANGED <<sseVars, hm, run, consumer, caughtUp, sourceClosed>>

NextMiddleware ==
    \/ MiddlewareBegin
    \/ HandlerConvey
    \/ MiddlewareEnd

SpecMiddleware == InitMiddleware /\ [][NextMiddleware]_vars

\* C25: the request ID the middleware uses is the incoming x-request-id when
\* that is non-empty and a generated one otherwise; when the handler runs it
\* is the x-request-id response header and the value in the context of the
\* handler's request; and ConveyRequestId puts the ID of the context on an
\* outgoing request only when that request has no x-request-id of its own.
RequestIdEndToEnd ==
    /\ mw.at \in {"handler", "finished"} =>
          /\ mw.header # "" => mw.requestId = mw.header
          /\ mw.header = "" => mw.requestId \in FreshIds
          /\ mw.response = mw.requestId
          /\ mw.ctx = WithValue(mw.requestId)
    /\ mw.at = "new" => mw.outgoing = <<>>
    /\ \A i \in 1..Len(mw.outgoing) :
          LET o == mw.outgoing[i]
          IN  /\ o.own # "" => o.header = o.own
              /\ (o.own = "" /\ o.ctx = mw.ctx) => o.header = mw.requestId
              /\ (o.own = "" /\ o.ctx = NoValue) => o.header = ""

\* A request without an x-request-id got a generated one; the handler conveyed
\* it to an outgoing request without an ID and not to one with an ID.
RequestIdEndToEndWitness ==
    /\ mw.at = "finished"
    /\ mw.header = ""
    /\ Len(mw.outgoing) = 2
    /\ mw.outgoing[1].own = "" /\ mw.outgoing[1].header = mw.requestId
    /\ mw.outgoing[2].own # "" /\ mw.outgoing[2].ctx = mw.ctx
    /\ mw.outgoing[2].header = mw.outgoing[2].own

------------------------------------------------------------------------------
\* The gap between catch-up and registration

\* How many items the application sends where the catch-ups are recorded.
GapMsgs == 1

SpecGap ==
    /\ Constructed(GapMsgs, {TRUE})
    /\ clock = NoClock
    /\ hm = NoRequest
    /\ sourceClosed = FALSE
    /\ mw = NoExchange
    /\ consumer = NoConsumer
    /\ run = NoRun
    /\ caughtUp = NewCatchUps
    /\ [][Next]_vars

\* The messages published after the catch-up of s ran and before s registered
\* (so far, while s has not registered).
Gap(s) ==
    { published[i] : i \in (caughtUp.at[s] + 1) ..
                            (IF window[s] # <<>> THEN window[s][1] ELSE Len(published)) }

\* C26: a message published after the OnConnect resolver of a session, or its
\* first heartbeat, has run and before the session registers its queue is not
\* enqueued for that session and is not written to its client by the loop.
CatchUpGap ==
    \A s \in Sessions :
        pc[s] \notin {"idle", "catchup"} =>
            Gap(s) \cap (Range(offered[s]) \cup Range(queue[s]) \cup Range(live[s])) = {}

\* A session that is in its loop missed a message that was published between
\* its catch-up and its registration, and that the loop of the other session
\* has written.
CatchUpGapWitness ==
    \E s \in Sessions : \E t \in Sessions \ {s} :
        /\ pc[s] = "loop"
        /\ Gap(s) \cap Range(live[t]) # {}

------------------------------------------------------------------------------
\* The source channel is closed

\* The application sends its next item to the source channel, which it has
\* not closed.
AppSendOpen ==
    /\ ~sourceClosed
    /\ AppSend(IdShapes)

\* The application closes the source channel.
AppClose ==
    /\ ~sourceClosed
    /\ sourceClosed' = TRUE
    /\ UNCHANGED <<sseVars, hm, run, consumer, mw, caughtUp>>

\* How often the controller has received from the closed, empty channel.
Zeros == Cardinality({ i \in 1..Len(published) : published[i] = ZeroValue })

\* case message := <-ch: h.b.publish(message), the channel closed and empty:
\* the receive does not block and yields the zero value.
ControllerPublishZero ==
    /\ ~done
    /\ sourceClosed
    /\ source = <<>>
    /\ Zeros < MaxZeros
    /\ LET message == ZeroValue
           p == publish(chs, queue, message)
       IN  /\ queue' = p.queues
           /\ offered' = [s \in Sessions |->
                            IF s \in p.tried THEN Append(offered[s], message) ELSE offered[s]]
           /\ dropped' = [s \in Sessions |->
                            IF s \in p.lost THEN dropped[s] \cup {message} ELSE dropped[s]]
           /\ published' = Append(published, message)
    /\ UNCHANGED <<hm, mw, consumer, run, caughtUp, sourceClosed, ctxDone, onConnect,
                   resolveEventId, source, budget, sent, done, chs, pc, req, reqDone,
                   res, onConnectMessages, beats, live, window, removedBy, clock,
                   logged, mu>>

NextClosing ==
    \/ AppSendOpen
    \/ AppClose
    \/ Cancel
    \/ ControllerPublish
    \/ ControllerPublishZero
    \/ ControllerClear
    \/ \E s \in Sessions :
          \/ ClientDisconnect(s)
          \/ Handshake(s, PlainRequests)
          \/ CatchUp(s)
          \/ Register(s)
          \/ LoopTimer(s)
          \/ LoopMessage(s)
          \/ LoopShutdown(s)
          \/ LoopDisconnect(s)

SpecClosing == Fresh(ClosingMsgs, {TRUE}) /\ [][NextClosing]_vars

\* C27: every message the controller passes to publish is an item the
\* application sent on the source, each sent item is published at most once,
\* and nothing is published from a source that is closed and empty.
OnlyRealItems ==
    /\ \A i \in 1..Len(published) : published[i] \in Range(SentItems)
    /\ \A i, j \in 1..Len(published) : published[i] = published[j] => i = j

\* While the source is open, what is published is sent items, each once.
OnlyRealItemsWhileOpen == ~sourceClosed => OnlyRealItems

\* The controller has published a sent item with the source open.
OnlyRealItemsWhileOpenWitness ==
    /\ ~sourceClosed
    /\ published # <<>>

------------------------------------------------------------------------------
\* Registration after clear()

\* C28: a session that registers its queue after the controller ran clear()
\* enters the live set, observes the shutdown in its loop and unregisters:
\* under fair scheduling it ends with its queue out of the live set, and once
\* clear() has run and no session is between its handshake and its return the
\* live set is empty.
LateRegistration ==
    /\ [][\A s \in Sessions :
             (done /\ pc[s] = "register" /\ pc'[s] = "loop") => s \in chs']_vars
    /\ \A s \in Sessions :
          (done /\ pc[s] \in {"catchup", "register"}) ~> (pc[s] = "closed" /\ s \notin chs)
    /\ []((done /\ \A s \in Sessions : pc[s] \in {"idle", "closed"}) => chs = {})

\* clear() has run, and a session that registered after it is in its loop,
\* its queue in the live set.
LateRegistrationWitness ==
    /\ done
    /\ \E s \in chs : pc[s] = "loop" /\ removedBy[s] = ""

------------------------------------------------------------------------------
\* The heartbeat timer of the loop (sse/handler.go, the select of the loop)

\* The session whose loop is followed second by second.
Paced == {"A"}

InitPaced ==
    /\ Constructed(PacedMsgs, {TRUE})
    /\ clock = PacedClock
    /\ hm = NoRequest
    /\ sourceClosed = FALSE
    /\ caughtUp = NoCatchUps
    /\ mw = NoExchange
    /\ consumer = NoConsumer
    /\ run = NoRun

NextPaced ==
    \/ Tick
    \/ AppSend(IdShapes)
    \/ Cancel
    \/ ControllerPublish
    \/ ControllerClear
    \/ \E s \in Paced :
          \/ ClientDisconnect(s)
          \/ Handshake(s, PlainRequests)
          \/ CatchUp(s)
          \/ Register(s)
          \/ LoopTimer(s)
          \/ LoopMessage(s)
          \/ LoopShutdown(s)
          \/ LoopDisconnect(s)

SpecPaced == InitPaced /\ [][NextPaced]_vars

\* Session s, in its loop, writes a heartbeat in this step.
WritesHeartbeat(s) ==
    /\ pc[s] = "loop"
    /\ res'[s].body = Append(res[s].body, HeartbeatLine)

\* Session s goes round its loop in this step: it handled a case of its
\* select and is in the loop still.
Iterates(s) ==
    /\ pc[s] = "loop"
    /\ pc'[s] = "loop"
    /\ \/ res'[s] # res[s]
       \/ Len(queue'[s]) < Len(queue[s])

\* C29: a heartbeat is written only when Period seconds have passed since the
\* previous write of the session's loop, or since the loop was entered; and
\* every iteration of the loop starts a new timer, so that a message written
\* before the timer fired puts the next heartbeat Period seconds after it.
HeartbeatTimerRestarts ==
    /\ [][\A s \in Sessions :
             WritesHeartbeat(s) => clock.quiet[s] >= Period /\ clock.timer[s] >= Period]_vars
    /\ [][\A s \in Sessions :
             Iterates(s) => s \in clock'.armed /\ clock'.timer[s] = 0]_vars

\* A session has been in its loop for Period seconds and more, has written
\* two live messages less than Period seconds apart, and no heartbeat.
HeartbeatTimerRestartsWitness ==
    \E s \in Sessions :
       /\ pc[s] = "loop"
       /\ clock.spent[s] >= Period
       /\ Len(live[s]) = 2
       /\ clock.gap[s] \in 1..(Period - 1)
       /\ HeartbeatLine \notin Range(res[s].body)

------------------------------------------------------------------------------
\* The states of a session (sse/handler.go, ServeHTTP from its first line to
\* its returns)

Initializing == {"idle", "catchup", "register"}
Streaming    == {"loop"}
Terminal     == {"closed"}

\* Session s is refused in this step: 400, and no queue of its own anywhere.
Rejected(s) ==
    /\ pc[s] = "idle"
    /\ Refused(req'[s].accept)
    /\ res'[s].code = 400
    /\ s \notin chs'

\* C30: a session goes from Initializing to Streaming and from Streaming to
\* Closed, or from Initializing to Closed when it is refused, and makes no
\* other move; the teardown writes nothing; a closed session stays closed,
\* its response and what it received stay as they are, its queue is never in
\* the live set again, and what was pending in the queue stays there.
ClosedIsTerminal ==
    [][\A s \in Sessions :
          /\ (pc[s] \in Initializing /\ pc'[s] \notin Initializing)
                => (pc'[s] \in Streaming \/ (pc'[s] \in Terminal /\ Rejected(s)))
          /\ (pc[s] \in Streaming /\ pc'[s] \notin Streaming)
                => (pc'[s] \in Terminal /\ res'[s] = res[s] /\ live'[s] = live[s])
          /\ pc[s] \in Terminal
                => /\ pc'[s] \in Terminal
                   /\ res'[s] = res[s]
                   /\ live'[s] = live[s]
                   /\ queue'[s] = queue[s]
                   /\ s \notin chs']_vars

\* A session left its loop with a message pending in its queue, another
\* message was published after that, and another session was refused.
ClosedIsTerminalWitness ==
    /\ \E s \in Sessions :
          /\ pc[s] \in Terminal
          /\ removedBy[s] # ""
          /\ queue[s] # <<>>
          /\ Len(published) > window[s][2]
    /\ \E s \in Sessions : pc[s] \in Terminal /\ res[s].code = 400

====
